---------------------------- MODULE Spec2Model ----------------------------
(***************************************************************************)
(* A model of the metaloop granular looper: the delay line, the ramped     *)
(* value, the grain, the grain player, the event scheduler, the loop        *)
(* scheduler and the grain looper.                                         *)
(*                                                                         *)
(* Each component is a record whose fields carry the names of the Rust     *)
(* struct's fields; each method is an operator from the record (and the    *)
(* arguments) to the record after the call.  Every component has its own   *)
(* specification (SpecDelayLine, SpecRamped, SpecGrain, SpecPlayer,        *)
(* SpecScheduler, SpecLoopScheduler, SpecLooper) that drives one instance   *)
(* through call sequences.                                                 *)
(*                                                                         *)
(* f32 values (samples, gains, delay positions) are modelled as exact      *)
(* rationals <<numerator, denominator>> in lowest terms: the arithmetic    *)
(* is that of the source expressions, without f32 rounding.                *)
(***************************************************************************)
EXTENDS Integers, Sequences, FiniteSets, TLC

VARIABLES
    dl,        \* the DelayLine under test: [buffer, write_index]
    dl_hist,   \* history: values ticked since new()/reset(), newest first
    rv,        \* the RampedValue under test
    rv_h,      \* history of the calls made on rv
    grain,     \* the Grain under test
    gr_h,      \* history of the calls made on grain
    gp,        \* the GrainPlayer under test
    gp_h,      \* history of the calls made on gp
    sch,       \* the Scheduler under test: its events, a list of <<time, event>>
    sch_h,     \* history of the calls made on sch
    ls,        \* the LoopScheduler under test
    ls_h,      \* history of the calls made on ls
    gl,        \* the GrainLooper under test
    gl_h,      \* history of the calls made on gl
    ng         \* the arguments and the result of a next_grid_in_beats call

dlVars == <<dl, dl_hist>>
rvVars == <<rv, rv_h>>
grVars == <<grain, gr_h>>
gpVars == <<gp, gp_h>>
schVars == <<sch, sch_h>>
lsVars == <<ls, ls_h>>
glVars == <<gl, gl_h>>
ngVars == <<ng>>
vars == <<dlVars, rvVars, grVars, gpVars, schVars, lsVars, glVars, ngVars>>

\* what the steps of one component's specification leave unchanged
DLOthers == <<rvVars, grVars, gpVars, schVars, lsVars, glVars, ngVars>>
RVOthers == <<dlVars, grVars, gpVars, schVars, lsVars, glVars, ngVars>>
GrainOthers == <<dlVars, rvVars, gpVars, schVars, lsVars, glVars, ngVars>>
PlayerOthers == <<dlVars, rvVars, grVars, schVars, lsVars, glVars, ngVars>>
SchedulerOthers == <<dlVars, rvVars, grVars, gpVars, lsVars, glVars, ngVars>>
LoopSchedulerOthers == <<dlVars, rvVars, grVars, gpVars, schVars, glVars, ngVars>>
LooperOthers == <<dlVars, rvVars, grVars, gpVars, schVars, lsVars, ngVars>>
GridOthers == <<dlVars, rvVars, grVars, gpVars, schVars, lsVars, glVars>>

-----------------------------------------------------------------------------
(* Bounds of the model *)

\* largest DelayLine capacity of SpecDelayLine
MaxCap == 3
\* largest sample value fed to the DelayLine under test
MaxSample == 2

-----------------------------------------------------------------------------
(* f32 as exact rationals *)

Abs(x) == IF x < 0 THEN -x ELSE x

RECURSIVE Gcd(_, _)
Gcd(a, b) == IF b = 0 THEN a ELSE Gcd(b, a % b)

\* n/d in lowest terms with a positive denominator
RNorm(n, d) ==
    LET g == Gcd(Abs(n), Abs(d))
        s == IF d < 0 THEN -1 ELSE 1
    IN  <<(s * n) \div g, (s * d) \div g>>

R(n) == <<n, 1>>
ZeroR == R(0)
OneR == R(1)
RAdd(a, b) == RNorm(a[1] * b[2] + b[1] * a[2], a[2] * b[2])
RSub(a, b) == RNorm(a[1] * b[2] - b[1] * a[2], a[2] * b[2])
RMul(a, b) == RNorm(a[1] * b[1], a[2] * b[2])
RLess(a, b) == a[1] * b[2] < b[1] * a[2]
RLeq(a, b) == a[1] * b[2] <= b[1] * a[2]
\* f32::floor and f32::ceil, as integers
\* a / b, for b other than 0
RDiv(a, b) == RNorm(a[1] * b[2], a[2] * b[1])
RFloor(a) == a[1] \div a[2]
RCeil(a) == -((-a[1]) \div a[2])

\* lerp(a, b, f) = (b - a) * f + a
lerp(a, b, f) == RAdd(RMul(RSub(b, a), f), a)

-----------------------------------------------------------------------------
(* DelayLine<T>: buffer[i] of the source is buffer[i + 1] here *)

DelayLine_new(size) ==
    [buffer |-> [i \in 1..size |-> ZeroR], write_index |-> 0]

DelayLine_len(d) == Len(d.buffer)

DelayLine_reset(d) ==
    [buffer |-> [i \in 1..Len(d.buffer) |-> ZeroR], write_index |-> 0]

DelayLine_tick_wrongwrap(d, value) ==
    [buffer |-> [d.buffer EXCEPT ![d.write_index + 1] = value],
     write_index |-> IF d.write_index + 1 >= Len(d.buffer) - 1
                     THEN 0 ELSE d.write_index + 1]

DelayLine_tick(d, value) ==
    [buffer |-> [d.buffer EXCEPT ![d.write_index + 1] = value],
     write_index |-> (d.write_index + 1) % Len(d.buffer)]

\* the assertion of read(): delay_samples < buffer.len()
DelayLine_read_ok(d, delay_samples) == delay_samples < Len(d.buffer)

DelayLine_read(d, delay_samples) ==
    LET read_index ==
            (d.write_index + Len(d.buffer) - delay_samples - 1) % Len(d.buffer)
    IN  d.buffer[read_index + 1]

\* the assertion of read_interpolated(): ceil(delay) < buffer.len()
DelayLine_read_interpolated_ok(d, delay_samples) ==
    RCeil(delay_samples) < Len(d.buffer)

DelayLine_read_interpolated(d, delay_samples) ==
    LET i0 == RFloor(delay_samples)
        i1 == RCeil(delay_samples)
        frac == RSub(delay_samples, R(i0))
    IN  lerp(DelayLine_read(d, i0), DelayLine_read(d, i1), frac)

-----------------------------------------------------------------------------
(* SpecDelayLine: one DelayLine driven by tick and reset *)

\* the last n elements pushed, newest first, kept to the capacity
PushHist(h, v, cap) == SubSeq(<<v>> \o h, 1, IF Len(h) + 1 > cap THEN cap ELSE Len(h) + 1)

DLInitState ==
    \E size \in 1..MaxCap :
        /\ dl = DelayLine_new(size)
        /\ dl_hist = <<>>

DLTick ==
    /\ \E v \in 0..MaxSample :
           /\ dl' = DelayLine_tick(dl, R(v))
           /\ dl_hist' = PushHist(dl_hist, R(v), Len(dl.buffer))
    /\ UNCHANGED DLOthers

DLReset ==
    /\ dl' = DelayLine_reset(dl)
    /\ dl_hist' = <<>>
    /\ UNCHANGED DLOthers


DLNext == DLTick \/ DLReset

-----------------------------------------------------------------------------
(* RampedValue *)

\* largest value passed to new(), set() and ramp() in SpecRamped
MaxRVValue == 2
\* largest ramp_time passed to ramp() in SpecRamped
MaxRampTime == 2

RampedValue_new(initial_value) ==
    [value |-> initial_value,
     target_value |-> initial_value,
     initial_value |-> initial_value,
     ramp_time_counter |-> 0,
     ramp_time_total |-> 0]

RampedValue_set(r, value) ==
    [r EXCEPT !.value = value, !.initial_value = value, !.ramp_time_counter = 0]

RampedValue_ramp(r, target_value, ramp_time) ==
    [r EXCEPT !.ramp_time_counter = ramp_time + 1,
              !.ramp_time_total = ramp_time + 1,
              !.target_value = target_value]

\* tick() with the interpolation fraction not inverted (frac instead of 1 - frac)
RampedValue_tick_fracswap(r) ==
    IF r.ramp_time_counter = 0
    THEN r
    ELSE LET c == r.ramp_time_counter - 1
             frac == RNorm(c, r.ramp_time_total)
         IN  [r EXCEPT !.ramp_time_counter = c,
                       !.value = lerp(r.initial_value, r.target_value, frac)]

\* the RampedValue after tick()
RampedValue_tick(r) ==
    IF r.ramp_time_counter = 0
    THEN r
    ELSE LET c == r.ramp_time_counter - 1
             frac == RNorm(c, r.ramp_time_total)
         IN  [r EXCEPT !.ramp_time_counter = c,
                       !.value = lerp(r.initial_value, r.target_value,
                                      RSub(OneR, frac))]

\* what tick() returns
RampedValue_tick_out(r) ==
    IF r.ramp_time_counter = 0
    THEN r.target_value
    ELSE RampedValue_tick(r).value

-----------------------------------------------------------------------------
(* SpecRamped: one RampedValue driven by set, ramp and tick *)

RVValues == {R(v) : v \in 0..MaxRVValue}

\* History of the calls (the counters stop counting once past what the
\* properties distinguish): held is the value the ramp holds for a caller (the
\* constructor's or the last set()'s value, or what the last tick() returned);
\* ramp_* describe the last ramp() while no set()/ramp() followed it and set_*
\* the last set() while no ramp() followed it; *_k count the ticks since.
RVHistInit(v) ==
    [has_out |-> FALSE, last_out |-> v, held |-> v,
     ramp_armed |-> FALSE, ramp_target |-> v, ramp_n |-> 0, ramp_start |-> v,
     ramp_k |-> 0,
     set_armed |-> FALSE, set_v |-> v, set_k |-> 0]

RVInitState ==
    \E v \in RVValues :
        /\ rv = RampedValue_new(v)
        /\ rv_h = RVHistInit(v)

RVSet ==
    /\ \E v \in RVValues :
           /\ rv' = RampedValue_set(rv, v)
           /\ rv_h' = [rv_h EXCEPT !.held = v, !.ramp_armed = FALSE,
                                   !.set_armed = TRUE, !.set_v = v, !.set_k = 0]
    /\ UNCHANGED RVOthers

RVRamp ==
    /\ \E t \in RVValues, n \in 0..MaxRampTime :
           /\ rv' = RampedValue_ramp(rv, t, n)
           /\ rv_h' = [rv_h EXCEPT !.ramp_armed = TRUE, !.ramp_target = t,
                                   !.ramp_n = n, !.ramp_start = rv_h.held,
                                   !.ramp_k = 0, !.set_armed = FALSE]
    /\ UNCHANGED RVOthers

RVTick ==
    /\ LET out == RampedValue_tick_out(rv)
       IN  /\ rv' = RampedValue_tick(rv)
           /\ rv_h' = [rv_h EXCEPT !.has_out = TRUE, !.last_out = out, !.held = out,
                                   !.ramp_k = IF rv_h.ramp_k < MaxRampTime + 3
                                          THEN rv_h.ramp_k + 1 ELSE rv_h.ramp_k,
                                   !.set_k = IF rv_h.set_k < 2
                                         THEN rv_h.set_k + 1 ELSE rv_h.set_k]
    /\ UNCHANGED RVOthers

RVNext == RVSet \/ RVRamp \/ RVTick


-----------------------------------------------------------------------------
(* Grain *)

\* largest scheduled_wait, duration and fade passed to Grain::new in SpecGrain
MaxWait == 2
MaxDur == 6
MaxFade == 3

\* new() starting the reverse grain where the forward grain starts
Grain_new_reverse_from_offset(scheduled_wait, offset, duration, fade, reverse, speed) ==
    LET actual_fade == IF fade * 2 > duration THEN duration \div 2 ELSE fade
        sample_increment == IF reverse THEN RSub(ZeroR, speed) ELSE speed
    IN  [scheduled_wait |-> scheduled_wait,
         delay_pos |-> RSub(offset, OneR),
         duration |-> duration,
         fade_duration |-> actual_fade,
         elapsed_sample_count |-> 0,
         offset |-> offset,
         sample_increment |-> sample_increment,
         fade_ramp |-> RampedValue_new(OneR)]

Grain_new(scheduled_wait, offset, duration, fade, reverse, speed) ==
    LET actual_fade == IF fade * 2 > duration THEN duration \div 2 ELSE fade
        start_delay == IF reverse THEN RSub(offset, R(duration))
                                  ELSE RSub(offset, OneR)
        sample_increment == IF reverse THEN RSub(ZeroR, speed) ELSE speed
    IN  [scheduled_wait |-> scheduled_wait,
         delay_pos |-> start_delay,
         duration |-> duration,
         fade_duration |-> actual_fade,
         elapsed_sample_count |-> 0,
         offset |-> offset,
         sample_increment |-> sample_increment,
         fade_ramp |-> RampedValue_new(OneR)]

Grain_is_finished_early(g) ==
    g.elapsed_sample_count + 1 >= g.duration \/ g.duration = 0

Grain_is_finished(g) ==
    g.elapsed_sample_count = g.duration \/ g.duration = 0

Grain_is_waiting(g) == g.scheduled_wait > 0

Grain_is_playing(g) == ~Grain_is_finished(g) /\ ~Grain_is_waiting(g)

Grain_is_fading_in(g) == g.elapsed_sample_count < g.fade_duration

Grain_is_fading_out(g) ==
    g.elapsed_sample_count > g.duration - g.fade_duration

\* the fade ramp as tick() leaves it before ticking it: restarted on the first
\* active tick and at the start of the fade-out
Grain_fade_ramp_armed(g) ==
    IF g.elapsed_sample_count = 0 /\ g.scheduled_wait = 0
    THEN RampedValue_ramp(RampedValue_set(g.fade_ramp, ZeroR), OneR, g.fade_duration)
    ELSE IF g.elapsed_sample_count = g.duration - g.fade_duration
         THEN RampedValue_ramp(RampedValue_set(g.fade_ramp, OneR), ZeroR,
                               g.fade_duration)
         ELSE g.fade_ramp

\* the Grain after tick()
Grain_tick(g) ==
    IF Grain_is_finished(g)
    THEN g
    ELSE IF Grain_is_waiting(g)
         THEN [g EXCEPT !.scheduled_wait = g.scheduled_wait - 1]
         ELSE [g EXCEPT !.delay_pos = RSub(g.delay_pos, g.sample_increment),
                        !.elapsed_sample_count = g.elapsed_sample_count + 1,
                        !.fade_ramp = RampedValue_tick(Grain_fade_ramp_armed(g))]

\* what tick() returns: <<delay position, window gain>>
Grain_tick_out(g) ==
    IF Grain_is_finished(g) \/ Grain_is_waiting(g)
    THEN <<ZeroR, ZeroR>>
    ELSE <<g.delay_pos, RampedValue_tick_out(Grain_fade_ramp_armed(g))>>

\* stop() leaving one sample too many before the end
Grain_stop_offbyone(g) ==
    IF g.elapsed_sample_count > g.duration - g.fade_duration
    THEN g
    ELSE [g EXCEPT !.duration = g.elapsed_sample_count + g.fade_duration + 1]

\* stop() without the check for a fade-out already in progress
Grain_stop_unguarded(g) ==
    [g EXCEPT !.duration = g.elapsed_sample_count + g.fade_duration]

Grain_stop(g) ==
    IF g.elapsed_sample_count > g.duration - g.fade_duration
    THEN g
    ELSE [g EXCEPT !.duration = g.elapsed_sample_count + g.fade_duration]

\* what the first n tick() calls on g return, in order
RECURSIVE Grain_ticks_out(_, _)
Grain_ticks_out(g, n) ==
    IF n = 0 THEN <<>>
    ELSE <<Grain_tick_out(g)>> \o Grain_ticks_out(Grain_tick(g), n - 1)

-----------------------------------------------------------------------------
(* SpecGrain: one Grain driven by tick and stop *)

GrainOffsets == {R(MaxDur), R(MaxDur + 2)}
GrainSpeeds == {OneR, RNorm(1, 2)}

\* History: the constructor's wait and duration and the first delay position;
\* the number of tick() calls and what the last returned; whether stop() was
\* ever called; and, for the last stop() that found the grain not finished and
\* outside its fade-out region (armed): the gain of the last tick before it
\* and the gains returned by the active ticks after it.  rev and speed are
\* the constructor's reverse and speed, and outs lists what the active ticks
\* returned, in order.  op is the last call, and was_finished tells whether
\* is_finished() held before some call made so far.
GrainHistInit(g, rev, sp) ==
    [w0 |-> g.scheduled_wait, d0 |-> g.duration, start_delay |-> g.delay_pos,
     rev |-> rev, speed |-> sp, outs |-> <<>>,
     n_ticks |-> 0, has_out |-> FALSE, last_out |-> <<ZeroR, ZeroR>>,
     had_active |-> FALSE,
     stopped |-> FALSE, armed |-> FALSE, at_elapsed |-> 0, at_waiting |-> FALSE,
     pre_gain |-> ZeroR, post_gains |-> <<>>,
     op |-> "new", was_finished |-> FALSE]

GrainInitState ==
    \E w \in 0..MaxWait, o \in GrainOffsets, d \in 0..MaxDur, f \in 0..MaxFade,
       rev \in BOOLEAN, sp \in GrainSpeeds :
        /\ grain = Grain_new(w, o, d, f, rev, sp)
        /\ gr_h = GrainHistInit(Grain_new(w, o, d, f, rev, sp), rev, sp)

GrainTick ==
    /\ LET out == Grain_tick_out(grain)
           active == Grain_is_playing(grain)
       IN  /\ grain' = Grain_tick(grain)
           /\ gr_h' = [gr_h EXCEPT
                   !.n_ticks = IF gr_h.n_ticks < gr_h.w0 + gr_h.d0 + 2
                           THEN gr_h.n_ticks + 1 ELSE gr_h.n_ticks,
                   !.has_out = TRUE,
                   !.last_out = out,
                   !.op = "tick",
                   !.was_finished = gr_h.was_finished
                                        \/ Grain_is_finished(grain),
                   !.had_active = gr_h.had_active \/ active,
                   !.outs = IF active THEN Append(gr_h.outs, out)
                                      ELSE gr_h.outs,
                   !.post_gains = IF gr_h.armed /\ active
                                  THEN Append(gr_h.post_gains, out[2])
                                  ELSE gr_h.post_gains]
    /\ UNCHANGED GrainOthers

GrainStop ==
    /\ LET qualifies == /\ ~Grain_is_finished(grain)
                        /\ grain.elapsed_sample_count
                               <= grain.duration - grain.fade_duration
       IN  /\ grain' = Grain_stop(grain)
           /\ gr_h' = IF qualifies
                      THEN [gr_h EXCEPT !.stopped = TRUE, !.armed = TRUE,
                                        !.op = "stop",
                                        !.at_elapsed = grain.elapsed_sample_count,
                                        !.at_waiting = Grain_is_waiting(grain),
                                        !.pre_gain = gr_h.last_out[2],
                                        !.post_gains = <<>>]
                      ELSE [gr_h EXCEPT !.stopped = TRUE, !.op = "stop",
                                        !.was_finished = gr_h.was_finished
                                            \/ Grain_is_finished(grain)]
    /\ UNCHANGED GrainOthers

GrainNext == GrainTick \/ GrainStop


-----------------------------------------------------------------------------
(* GrainPlayer<f32> *)

\* The pool size.  The source sets MAX_GRAINS to 10; the model keeps the pool
\* a fixed array of this smaller size.
MAX_GRAINS == 2
\* largest loopable_region_length and max_fade_time passed to new_with_length
MaxLoopLen == 2
MaxFadeAllow == 1
\* number of tick() calls SpecPlayer follows beyond the length of a fill
ExtraTicks == 1
\* number of calls other than tick() SpecPlayer follows
MaxCalls == 3

GrainPlayer_new_with_length(loopable_region_length, max_fade_time) ==
    [grains |-> [i \in 1..MAX_GRAINS |->
                    Grain_new(0, ZeroR, 0, 0, FALSE, ZeroR)],
     rolling_buffer |-> DelayLine_new(loopable_region_length * 2 + max_fade_time),
     static_buffer |-> DelayLine_new(loopable_region_length + max_fade_time),
     rolling_offset |-> 0,
     use_static_buffer |-> FALSE,
     loopable_region_length |-> loopable_region_length,
     fade_allowance |-> max_fade_time,
     is_filling_static_buffer |-> FALSE]

\* the slots schedule_grain may replace
FinishedSlots(p) == {i \in 1..Len(p.grains) : Grain_is_finished(p.grains[i])}

SetMin(S) == CHOOSE x \in S : \A y \in S : x <= y
SetMax(S) == CHOOSE x \in S : \A y \in S : x >= y

\* schedule_grain replacing the last finished slot instead of the first
GrainPlayer_schedule_grain_last(p, g) ==
    IF FinishedSlots(p) = {}
    THEN p
    ELSE [p EXCEPT !.grains[SetMax(FinishedSlots(p))] = g]

GrainPlayer_schedule_grain(p, g) ==
    IF FinishedSlots(p) = {}
    THEN p
    ELSE [p EXCEPT !.grains[SetMin(FinishedSlots(p))] = g]

\* start_looping that leaves use_static_buffer as it is
GrainPlayer_start_looping_keeps_static(p) ==
    [p EXCEPT !.is_filling_static_buffer = TRUE,
              !.rolling_offset = 0]

GrainPlayer_start_looping(p) ==
    [p EXCEPT !.is_filling_static_buffer = TRUE,
              !.use_static_buffer = FALSE,
              !.rolling_offset = 0]

GrainPlayer_stop_looping(p) ==
    [p EXCEPT !.is_filling_static_buffer = FALSE,
              !.use_static_buffer = FALSE,
              !.rolling_offset = 0]

GrainPlayer_ticks_before_switch_to_static_buffer(p) ==
    p.loopable_region_length + p.fade_allowance

\* whether tick_static_buffer_copy copies a sample (it returns early otherwise)
GrainPlayer_copies(p) ==
    ~(p.use_static_buffer \/ ~p.is_filling_static_buffer)

\* tick_static_buffer_copy switching one tick late (> instead of >=)
GrainPlayer_tick_static_buffer_copy_late(p) ==
    IF ~GrainPlayer_copies(p)
    THEN p
    ELSE LET switch == p.rolling_offset
                         > GrainPlayer_ticks_before_switch_to_static_buffer(p)
         IN  [p EXCEPT
                !.static_buffer =
                    DelayLine_tick(p.static_buffer,
                        DelayLine_read(p.rolling_buffer, p.loopable_region_length)),
                !.is_filling_static_buffer =
                    IF switch THEN FALSE ELSE p.is_filling_static_buffer,
                !.use_static_buffer =
                    IF switch THEN TRUE ELSE p.use_static_buffer]

\* tick_static_buffer_copy that keeps copying after the switch: the early
\* return looks at is_filling_static_buffer only, and the switch leaves it set
GrainPlayer_tick_static_buffer_copy_keeps_filling(p) ==
    IF ~p.is_filling_static_buffer
    THEN p
    ELSE [p EXCEPT
            !.static_buffer =
                DelayLine_tick(p.static_buffer,
                    DelayLine_read(p.rolling_buffer, p.loopable_region_length)),
            !.use_static_buffer =
                IF p.rolling_offset
                     >= GrainPlayer_ticks_before_switch_to_static_buffer(p)
                THEN TRUE ELSE p.use_static_buffer]

\* tick_static_buffer_copy reading the rolling buffer one sample too near
GrainPlayer_tick_static_buffer_copy_near(p) ==
    IF ~GrainPlayer_copies(p)
    THEN p
    ELSE LET switch == p.rolling_offset
                         >= GrainPlayer_ticks_before_switch_to_static_buffer(p)
         IN  [p EXCEPT
                !.static_buffer =
                    DelayLine_tick(p.static_buffer,
                        DelayLine_read(p.rolling_buffer,
                                       p.loopable_region_length - 1)),
                !.is_filling_static_buffer =
                    IF switch THEN FALSE ELSE p.is_filling_static_buffer,
                !.use_static_buffer =
                    IF switch THEN TRUE ELSE p.use_static_buffer]

GrainPlayer_tick_static_buffer_copy(p) ==
    IF ~GrainPlayer_copies(p)
    THEN p
    ELSE LET switch == p.rolling_offset
                         >= GrainPlayer_ticks_before_switch_to_static_buffer(p)
         IN  [p EXCEPT
                !.static_buffer =
                    DelayLine_tick(p.static_buffer,
                        DelayLine_read(p.rolling_buffer, p.loopable_region_length)),
                !.is_filling_static_buffer =
                    IF switch THEN FALSE ELSE p.is_filling_static_buffer,
                !.use_static_buffer =
                    IF switch THEN TRUE ELSE p.use_static_buffer]

\* read_grains: the delay a playing grain reads at
GrainDelay(g, rolling_offset) == RAdd(Grain_tick_out(g)[1], R(rolling_offset))

\* read_grains: its assertion and that of read_interpolated, for one grain
GrainReadOk(g, delay_line, rolling_offset) ==
    LET delay == GrainDelay(g, rolling_offset)
    IN  /\ RLeq(ZeroR, delay)
        /\ RLess(delay, R(DelayLine_len(delay_line)))
        /\ DelayLine_read_interpolated_ok(delay_line, delay)

\* read_grains adding the sample read without the grain's amplitude
GrainContribution_nogain(g, delay_line, rolling_offset) ==
    IF ~Grain_is_playing(g)
    THEN ZeroR
    ELSE DelayLine_read_interpolated(delay_line, GrainDelay(g, rolling_offset))

\* read_grains: what one grain adds to the output
GrainContribution(g, delay_line, rolling_offset) ==
    IF ~Grain_is_playing(g)
    THEN ZeroR
    ELSE RMul(DelayLine_read_interpolated(delay_line, GrainDelay(g, rolling_offset)),
              Grain_tick_out(g)[2])

RECURSIVE SumContributions(_, _, _, _)
SumContributions(grains, delay_line, rolling_offset, n) ==
    IF n = 0
    THEN ZeroR
    ELSE RAdd(SumContributions(grains, delay_line, rolling_offset, n - 1),
              GrainContribution(grains[n], delay_line, rolling_offset))

\* read_grains: no assertion fails
read_grains_ok(grains, delay_line, rolling_offset) ==
    \A i \in 1..Len(grains) :
        Grain_is_playing(grains[i]) =>
            GrainReadOk(grains[i], delay_line, rolling_offset)

\* read_grains: the value returned
read_grains_out(grains, delay_line, rolling_offset) ==
    SumContributions(grains, delay_line, rolling_offset, Len(grains))

\* read_grains: the grains after the call
read_grains(grains) ==
    [i \in 1..Len(grains) |->
        IF Grain_is_finished(grains[i]) THEN grains[i] ELSE Grain_tick(grains[i])]

\* tick(): the player once the buffers are written, before the grains are read
GrainPlayer_tick_buffers(p, input) ==
    GrainPlayer_tick_static_buffer_copy(
        [p EXCEPT !.rolling_buffer = DelayLine_tick(p.rolling_buffer, input),
                  !.rolling_offset = p.rolling_offset + 1])

\* tick(): the buffer the grains are read from and the offset added to them
GrainPlayer_read_buffer(q) ==
    IF q.use_static_buffer THEN q.static_buffer ELSE q.rolling_buffer

\* the offset of tick() without the fade allowance of the static buffer
GrainPlayer_read_offset_nomargin(q) ==
    IF q.use_static_buffer THEN 0 ELSE q.rolling_offset

GrainPlayer_read_offset(q) ==
    IF q.use_static_buffer THEN q.fade_allowance ELSE q.rolling_offset

GrainPlayer_tick_ok(p, input) ==
    LET q == GrainPlayer_tick_buffers(p, input)
    IN  read_grains_ok(q.grains, GrainPlayer_read_buffer(q),
                       GrainPlayer_read_offset(q))

GrainPlayer_tick_out(p, input) ==
    LET q == GrainPlayer_tick_buffers(p, input)
    IN  read_grains_out(q.grains, GrainPlayer_read_buffer(q),
                        GrainPlayer_read_offset(q))

GrainPlayer_tick(p, input) ==
    LET q == GrainPlayer_tick_buffers(p, input)
    IN  [q EXCEPT !.grains = read_grains(q.grains)]

GrainPlayer_stop_all_grains(p) ==
    [p EXCEPT !.grains = [i \in 1..Len(p.grains) |-> Grain_stop(p.grains[i])]]

GrainPlayer_num_scheduled_grains(p) ==
    Cardinality({i \in 1..Len(p.grains) : Grain_is_waiting(p.grains[i])})

GrainPlayer_num_playing_grains(p) ==
    Cardinality({i \in 1..Len(p.grains) : Grain_is_playing(p.grains[i])})

GrainPlayer_num_finished_grains(p) ==
    Cardinality({i \in 1..Len(p.grains) : Grain_is_finished(p.grains[i])})


-----------------------------------------------------------------------------
(* SpecPlayer: one GrainPlayer driven by tick, schedule_grain, start_looping, *)
(* stop_looping and stop_all_grains.  The k-th input sample is k, so that a   *)
(* sample names its place in the input stream.                                *)

MaxPlayerTicks(p) == p.loopable_region_length + p.fade_allowance + ExtraTicks

\* the grains SpecPlayer schedules
PlayerGrains ==
    {Grain_new(1, R(2), 3, 1, FALSE, OneR),
     Grain_new(0, R(2), 2, 0, TRUE, OneR)}

\* History: n_in counts the tick() calls and n_calls the others; panicked is set when an assertion
\* of tick() failed (the program aborts); sched tells what the last call did
\* if it was a schedule_grain; loop_armed holds from a start_looping() until
\* the next start_looping()/stop_looping(), with since_start the ticks and
\* copied the samples written to the static buffer since.
\* For SpecPool: stop_all holds from a stop_all_grains() until the next
\* schedule_grain(); stop_F is the largest fade_duration of the grains that
\* call found unfinished, stop_waiting the slots it found waiting, stop_ticks
\* the ticks since, and stop_sounded tells whether a grain of stop_waiting
\* was played by one of them.
PlayerHistInit ==
    [n_in |-> 0, n_calls |-> 0, panicked |-> FALSE, sched |-> "none",
     loop_armed |-> FALSE, since_start |-> 0, copied |-> 0,
     stop_all |-> FALSE, stop_F |-> 0, stop_ticks |-> 0, stop_waiting |-> {},
     stop_sounded |-> FALSE]

PlayerInitState ==
    \E l \in 1..MaxLoopLen, f \in 0..MaxFadeAllow :
        /\ gp = GrainPlayer_new_with_length(l, f)
        /\ gp_h = PlayerHistInit

PlayerTick ==
    /\ ~gp_h.panicked
    /\ gp_h.n_in < MaxPlayerTicks(gp)
    /\ LET input == R(gp_h.n_in + 1)
           copies == GrainPlayer_copies(gp)
       IN  IF GrainPlayer_tick_ok(gp, input)
           THEN /\ gp' = GrainPlayer_tick(gp, input)
                /\ gp_h' = [gp_h EXCEPT
                        !.n_in = gp_h.n_in + 1,
                        !.sched = "none",
                        !.since_start = gp_h.since_start + 1,
                        !.copied = IF copies THEN gp_h.copied + 1
                                             ELSE gp_h.copied]
           ELSE /\ gp' = gp
                /\ gp_h' = [gp_h EXCEPT !.panicked = TRUE, !.sched = "none"]
    /\ UNCHANGED PlayerOthers

PlayerSchedule ==
    /\ ~gp_h.panicked
    /\ gp_h.n_calls < MaxCalls
    /\ \E g \in PlayerGrains :
        /\ gp' = GrainPlayer_schedule_grain(gp, g)
        /\ gp_h' = [gp_h EXCEPT !.n_calls = gp_h.n_calls + 1,
                                !.sched = IF FinishedSlots(gp) = {}
                                          THEN "dropped" ELSE "installed"]
    /\ UNCHANGED PlayerOthers

PlayerStartLooping ==
    /\ ~gp_h.panicked
    /\ gp_h.n_calls < MaxCalls
    /\ gp' = GrainPlayer_start_looping(gp)
    /\ gp_h' = [gp_h EXCEPT !.n_calls = gp_h.n_calls + 1,
                            !.sched = "none", !.loop_armed = TRUE,
                            !.since_start = 0, !.copied = 0]
    /\ UNCHANGED PlayerOthers

PlayerStopLooping ==
    /\ ~gp_h.panicked
    /\ gp_h.n_calls < MaxCalls
    /\ gp' = GrainPlayer_stop_looping(gp)
    /\ gp_h' = [gp_h EXCEPT !.n_calls = gp_h.n_calls + 1,
                            !.sched = "none", !.loop_armed = FALSE]
    /\ UNCHANGED PlayerOthers

PlayerStopAll ==
    /\ ~gp_h.panicked
    /\ gp_h.n_calls < MaxCalls
    /\ gp' = GrainPlayer_stop_all_grains(gp)
    /\ gp_h' = [gp_h EXCEPT !.n_calls = gp_h.n_calls + 1, !.sched = "none"]
    /\ UNCHANGED PlayerOthers

PlayerNext ==
    PlayerTick \/ PlayerSchedule \/ PlayerStartLooping \/ PlayerStopLooping
        \/ PlayerStopAll

-----------------------------------------------------------------------------
(* SpecPool: the grain pool of one GrainPlayer driven by schedule_grain,    *)
(* tick and stop_all_grains, without looping.  The grains read one sample   *)
(* behind the write position, so that every read is inside the rolling      *)
(* buffer.                                                                  *)

\* the grains SpecPool schedules: waiting or not, of duration 0 or more, with
\* and without a fade
PoolGrains ==
    {Grain_new(1, OneR, 0, 0, FALSE, OneR),
     Grain_new(1, OneR, 2, 0, FALSE, OneR),
     Grain_new(1, OneR, 3, 1, FALSE, OneR),
     Grain_new(0, OneR, 2, 1, FALSE, OneR)}

\* the slots whose grain is not finished
UnfinishedSlots(p) == (1..Len(p.grains)) \ FinishedSlots(p)

PoolInitState ==
    /\ gp = GrainPlayer_new_with_length(MaxLoopLen, MaxFadeAllow)
    /\ gp_h = PlayerHistInit

PoolTick ==
    /\ ~gp_h.panicked
    /\ gp_h.n_in < MaxPlayerTicks(gp)
    /\ LET input == R(gp_h.n_in + 1)
           sounding == {i \in gp_h.stop_waiting : Grain_is_playing(gp.grains[i])}
       IN  IF GrainPlayer_tick_ok(gp, input)
           THEN /\ gp' = GrainPlayer_tick(gp, input)
                /\ gp_h' = [gp_h EXCEPT
                        !.n_in = gp_h.n_in + 1,
                        !.sched = "none",
                        !.stop_ticks = IF gp_h.stop_all
                                       THEN gp_h.stop_ticks + 1 ELSE 0,
                        !.stop_sounded = gp_h.stop_sounded \/ sounding # {}]
           ELSE /\ gp' = gp
                /\ gp_h' = [gp_h EXCEPT !.panicked = TRUE, !.sched = "none"]
    /\ UNCHANGED PlayerOthers

PoolSchedule ==
    /\ ~gp_h.panicked
    /\ gp_h.n_calls < MaxCalls
    /\ \E g \in PoolGrains :
        /\ gp' = GrainPlayer_schedule_grain(gp, g)
        /\ gp_h' = [gp_h EXCEPT !.n_calls = gp_h.n_calls + 1,
                                !.sched = IF FinishedSlots(gp) = {}
                                          THEN "dropped" ELSE "installed",
                                !.stop_all = FALSE, !.stop_F = 0,
                                !.stop_ticks = 0, !.stop_waiting = {},
                                !.stop_sounded = FALSE]
    /\ UNCHANGED PlayerOthers

PoolStopAll ==
    /\ ~gp_h.panicked
    /\ gp_h.n_calls < MaxCalls
    /\ gp' = GrainPlayer_stop_all_grains(gp)
    /\ gp_h' = [gp_h EXCEPT
            !.n_calls = gp_h.n_calls + 1, !.sched = "none",
            !.stop_all = TRUE,
            !.stop_F = IF UnfinishedSlots(gp) = {} THEN 0
                       ELSE SetMax({gp.grains[i].fade_duration :
                                       i \in UnfinishedSlots(gp)}),
            !.stop_ticks = 0,
            !.stop_waiting = {i \in UnfinishedSlots(gp) :
                                 Grain_is_waiting(gp.grains[i])},
            !.stop_sounded = FALSE]
    /\ UNCHANGED PlayerOthers

PoolNext == PoolTick \/ PoolSchedule \/ PoolStopAll

-----------------------------------------------------------------------------
(* Scheduler: the pending events, a list of <<time, event>> *)

Scheduler_new == <<>>

\* schedule_event without its assertion
Scheduler_schedule_event_ok_unchecked(s, time) == TRUE

\* the assertion of schedule_event(): time is not before the time of the last
\* pending event, or before 0.0 when none is pending
Scheduler_schedule_event_ok(s, time) ==
    RLeq(IF Len(s) = 0 THEN ZeroR ELSE s[Len(s)][1], time)

Scheduler_schedule_event(s, time, event) == Append(s, <<time, event>>)

\* tick() stopping after the first due event
Scheduler_tick_count_one(s, time) ==
    IF Len(s) > 0 /\ RLeq(s[1][1], time) THEN 1 ELSE 0

\* tick(): the number of events taken from the front of the list
RECURSIVE Scheduler_tick_count(_, _)
Scheduler_tick_count(s, time) ==
    IF Len(s) > 0 /\ RLeq(s[1][1], time)
    THEN 1 + Scheduler_tick_count(Tail(s), time)
    ELSE 0

\* tick(): the events returned
Scheduler_tick_out(s, time) ==
    [i \in 1..Scheduler_tick_count(s, time) |-> s[i][2]]

\* tick(): the events left pending
Scheduler_tick(s, time) ==
    SubSeq(s, Scheduler_tick_count(s, time) + 1, Len(s))

Scheduler_clear(s) == <<>>

-----------------------------------------------------------------------------
(* SpecScheduler: one Scheduler driven by schedule_event, tick and clear.   *)
(* The n-th event scheduled is the number n, so that an event names its     *)
(* insertion.                                                                *)

\* largest time passed to schedule_event and tick; the smallest is -1
MaxSchedTime == 2
\* number of schedule_event calls SpecScheduler follows
MaxEvents == 3

SchedTimes == {R(t) : t \in -1..MaxSchedTime}

\* History: op, time, before and out are the last call, its time argument,
\* the pending list before it and what it returned; panicked is set when the
\* assertion of schedule_event failed (the program aborts); n_sched counts
\* the schedule_event calls; returned holds the events some tick returned
\* and twice is set when a tick returned one of them again.
SchedulerHistInit ==
    [op |-> "none", time |-> ZeroR, before |-> <<>>, out |-> <<>>,
     panicked |-> FALSE, n_sched |-> 0, returned |-> {}, twice |-> FALSE]

SchedulerInitState ==
    /\ sch = Scheduler_new
    /\ sch_h = SchedulerHistInit

SchedulerSchedule ==
    /\ ~sch_h.panicked
    /\ sch_h.n_sched < MaxEvents
    /\ \E time \in SchedTimes :
        LET h == [sch_h EXCEPT !.op = "schedule_event", !.time = time,
                               !.before = sch, !.out = <<>>,
                               !.n_sched = sch_h.n_sched + 1]
        IN  IF Scheduler_schedule_event_ok(sch, time)
            THEN /\ sch' = Scheduler_schedule_event(sch, time, sch_h.n_sched + 1)
                 /\ sch_h' = h
            ELSE /\ sch' = sch
                 /\ sch_h' = [h EXCEPT !.panicked = TRUE]
    /\ UNCHANGED SchedulerOthers

SchedulerTick ==
    /\ ~sch_h.panicked
    /\ \E time \in SchedTimes :
        LET out == Scheduler_tick_out(sch, time)
            evs == {out[i] : i \in 1..Len(out)}
        IN  /\ sch' = Scheduler_tick(sch, time)
            /\ sch_h' = [sch_h EXCEPT !.op = "tick", !.time = time,
                                      !.before = sch, !.out = out,
                                      !.returned = sch_h.returned \cup evs,
                                      !.twice = sch_h.twice
                                                  \/ evs \cap sch_h.returned # {}]
    /\ UNCHANGED SchedulerOthers

SchedulerClear ==
    /\ ~sch_h.panicked
    /\ sch' = Scheduler_clear(sch)
    /\ sch_h' = [sch_h EXCEPT !.op = "clear", !.before = sch, !.out = <<>>]
    /\ UNCHANGED SchedulerOthers

SchedulerNext == SchedulerSchedule \/ SchedulerTick \/ SchedulerClear

-----------------------------------------------------------------------------
(* LoopScheduler: a Scheduler of LoopEvents, the grid and the song time *)

\* the LoopEvent variants; the fields a variant lacks are 0
StartGrain(duration) ==
    [kind |-> "StartGrain", duration |-> duration, offset_reduction |-> ZeroR]
StartLegatoGrain(duration, offset_reduction) ==
    [kind |-> "StartLegatoGrain", duration |-> duration,
     offset_reduction |-> offset_reduction]
StopGrain == [kind |-> "StopGrain", duration |-> ZeroR, offset_reduction |-> ZeroR]
FadeOutDry == [kind |-> "FadeOutDry", duration |-> ZeroR, offset_reduction |-> ZeroR]
FadeInDry == [kind |-> "FadeInDry", duration |-> ZeroR, offset_reduction |-> ZeroR]
NextLoop == [kind |-> "NextLoop", duration |-> ZeroR, offset_reduction |-> ZeroR]

\* the grid line at or before the song time (previous_grid_in_beats)
next_grid_in_beats_floor(song_time, grid_interval, grid_offset) ==
    RSub(RMul(R(RFloor(RDiv(RAdd(song_time, grid_offset), grid_interval))),
              grid_interval),
         grid_offset)

next_grid_in_beats(song_time, grid_interval, grid_offset) ==
    RSub(RMul(R(RCeil(RDiv(RAdd(song_time, grid_offset), grid_interval))),
              grid_interval),
         grid_offset)

LoopScheduler_new ==
    [scheduler |-> Scheduler_new,
     fade_in_time |-> ZeroR,
     grid_interval |-> OneR,
     current_song_time |-> R(-1),
     time_looping_initiated |-> ZeroR,
     is_looping |-> FALSE]

LoopScheduler_reset(l) ==
    [l EXCEPT !.scheduler = Scheduler_clear(l.scheduler), !.is_looping = FALSE]

LoopScheduler_set_fade_lead_in(l, fade_in) == [l EXCEPT !.fade_in_time = fade_in]

\* a run of schedule_event calls, evs being the list of <<time, event>>: the
\* list after them, and whether every assertion passes
RECURSIVE ScheduleAll(_, _)
ScheduleAll(s, evs) ==
    IF Len(evs) = 0
    THEN s
    ELSE ScheduleAll(Scheduler_schedule_event(s, evs[1][1], evs[1][2]), Tail(evs))

RECURSIVE ScheduleAll_ok(_, _)
ScheduleAll_ok(s, evs) ==
    IF Len(evs) = 0
    THEN TRUE
    ELSE /\ Scheduler_schedule_event_ok(s, evs[1][1])
         /\ ScheduleAll_ok(Scheduler_schedule_event(s, evs[1][1], evs[1][2]),
                           Tail(evs))

\* set_grid_interval returning early for an unchanged interval only
LoopScheduler_set_grid_interval_stores_when_equal(l, new_interval) ==
    new_interval = l.grid_interval

\* set_grid_interval: whether it only stores the interval
LoopScheduler_set_grid_interval_stores(l, new_interval) ==
    new_interval = l.grid_interval \/ ~l.is_looping

\* set_grid_interval scheduling the legato grain on every lengthening
LoopScheduler_set_grid_interval_events_always_legato(l, new_interval) ==
    LET next_old_grid_interval ==
            next_grid_in_beats(l.current_song_time, l.grid_interval, l.fade_in_time)
        next_new_grid_interval ==
            next_grid_in_beats(l.current_song_time, new_interval, l.fade_in_time)
        reduced_grid_interval ==
            RSub(next_new_grid_interval, next_old_grid_interval)
        how_far_thru == RSub(new_interval, reduced_grid_interval)
    IN  (IF RLess(new_interval, l.grid_interval)
         THEN <<<<next_new_grid_interval, StopGrain>>>>
         ELSE IF RLess(l.grid_interval, new_interval)
              THEN <<<<next_old_grid_interval,
                       StartLegatoGrain(reduced_grid_interval, how_far_thru)>>>>
              ELSE <<>>)
        \o <<<<next_new_grid_interval, NextLoop>>>>

\* set_grid_interval: what it schedules once the list is cleared
LoopScheduler_set_grid_interval_events(l, new_interval) ==
    LET next_old_grid_interval ==
            next_grid_in_beats(l.current_song_time, l.grid_interval, l.fade_in_time)
        next_new_grid_interval ==
            next_grid_in_beats(l.current_song_time, new_interval, l.fade_in_time)
        reduced_grid_interval ==
            RSub(next_new_grid_interval, next_old_grid_interval)
        how_far_thru == RSub(new_interval, reduced_grid_interval)
    IN  (IF RLess(new_interval, l.grid_interval)
         THEN <<<<next_new_grid_interval, StopGrain>>>>
         ELSE IF RLess(l.grid_interval, new_interval)
                   /\ RLess(next_old_grid_interval, next_new_grid_interval)
              THEN <<<<next_old_grid_interval,
                       StartLegatoGrain(reduced_grid_interval, how_far_thru)>>>>
              ELSE <<>>)
        \o <<<<next_new_grid_interval, NextLoop>>>>

LoopScheduler_set_grid_interval_ok(l, new_interval) ==
    \/ LoopScheduler_set_grid_interval_stores(l, new_interval)
    \/ ScheduleAll_ok(Scheduler_clear(l.scheduler),
                      LoopScheduler_set_grid_interval_events(l, new_interval))

LoopScheduler_set_grid_interval(l, new_interval) ==
    IF LoopScheduler_set_grid_interval_stores(l, new_interval)
    THEN [l EXCEPT !.grid_interval = new_interval]
    ELSE [l EXCEPT
            !.scheduler =
                ScheduleAll(Scheduler_clear(l.scheduler),
                            LoopScheduler_set_grid_interval_events(l, new_interval)),
            !.grid_interval = new_interval]

\* start_looping scheduling the fade out before the NextLoop
LoopScheduler_start_looping_events_swapped(l) ==
    LET next_grid_interval ==
            next_grid_in_beats(l.current_song_time, l.grid_interval, l.fade_in_time)
    IN  <<<<next_grid_interval, FadeOutDry>>, <<next_grid_interval, NextLoop>>>>

\* start_looping: what it schedules
LoopScheduler_start_looping_events(l) ==
    LET next_grid_interval ==
            next_grid_in_beats(l.current_song_time, l.grid_interval, l.fade_in_time)
    IN  <<<<next_grid_interval, NextLoop>>, <<next_grid_interval, FadeOutDry>>>>

LoopScheduler_start_looping_ok(l) ==
    /\ ~l.is_looping
    /\ ScheduleAll_ok(l.scheduler, LoopScheduler_start_looping_events(l))

LoopScheduler_start_looping(l) ==
    [l EXCEPT !.is_looping = TRUE,
              !.time_looping_initiated = l.current_song_time,
              !.scheduler = ScheduleAll(l.scheduler,
                                        LoopScheduler_start_looping_events(l))]

\* stop_looping: what it schedules once the list is cleared
LoopScheduler_stop_looping_events(l) ==
    LET next_grid_interval ==
            next_grid_in_beats(l.current_song_time, l.grid_interval, l.fade_in_time)
    IN  <<<<next_grid_interval, StopGrain>>, <<next_grid_interval, FadeInDry>>>>

LoopScheduler_stop_looping_ok(l) ==
    /\ l.is_looping
    /\ ScheduleAll_ok(Scheduler_clear(l.scheduler),
                      LoopScheduler_stop_looping_events(l))

\* stop_looping without the clear
LoopScheduler_stop_looping_noclear(l) ==
    [l EXCEPT !.is_looping = FALSE,
              !.scheduler = ScheduleAll(l.scheduler,
                                        LoopScheduler_stop_looping_events(l))]

LoopScheduler_stop_looping(l) ==
    [l EXCEPT !.is_looping = FALSE,
              !.scheduler = ScheduleAll(Scheduler_clear(l.scheduler),
                                        LoopScheduler_stop_looping_events(l))]

\* tick: the events the scheduler hands over
LoopScheduler_tick_events(l, beat_time) == Scheduler_tick_out(l.scheduler, beat_time)

\* tick turning NextLoop into StartGrain without scheduling the next one
LoopScheduler_tick_reschedules_nothing(l, beat_time) == <<>>

\* tick: what it schedules, one NextLoop for each NextLoop handed over
LoopScheduler_tick_reschedules(l, beat_time) ==
    LET IsNextLoop(e) == e = NextLoop
        n == Len(SelectSeq(LoopScheduler_tick_events(l, beat_time), IsNextLoop))
    IN  [i \in 1..n |-> <<RAdd(beat_time, l.grid_interval), NextLoop>>]

\* tick accepting the time of the previous tick again
LoopScheduler_tick_ok_allows_equal(l, beat_time) ==
    /\ RLeq(l.current_song_time, beat_time)
    /\ ScheduleAll_ok(Scheduler_tick(l.scheduler, beat_time),
                      LoopScheduler_tick_reschedules(l, beat_time))

\* tick: the time goes forward and the assertions of schedule_event pass
LoopScheduler_tick_ok(l, beat_time) ==
    /\ RLess(l.current_song_time, beat_time)
    /\ ScheduleAll_ok(Scheduler_tick(l.scheduler, beat_time),
                      LoopScheduler_tick_reschedules(l, beat_time))

\* tick: the events returned
LoopScheduler_tick_out(l, beat_time) ==
    LET events == LoopScheduler_tick_events(l, beat_time)
    IN  [i \in 1..Len(events) |->
            IF events[i] = NextLoop
            THEN StartGrain(l.grid_interval)
            ELSE events[i]]

LoopScheduler_tick(l, beat_time) ==
    [l EXCEPT !.current_song_time = beat_time,
              !.scheduler = ScheduleAll(Scheduler_tick(l.scheduler, beat_time),
                                        LoopScheduler_tick_reschedules(l, beat_time))]

-----------------------------------------------------------------------------
(* SpecLoopScheduler: one LoopScheduler driven by tick, start_looping,      *)
(* stop_looping, set_grid_interval, set_fade_lead_in and reset.  Beat times *)
(* are multiples of half a beat.                                            *)

\* largest beat time passed to tick, in half beats
MaxBeatHalves == 6
\* number of calls other than tick SpecLoopScheduler follows
MaxLSCalls == 4

LSTimes == {RNorm(k, 2) : k \in 0..MaxBeatHalves}
LSGrids == {RNorm(1, 2), R(1), R(2), R(4)}
LSFades == {ZeroR, RNorm(1, 2)}

\* History.  op, arg, pre and out are the last call, its argument, the
\* LoopScheduler before it and the events it returned; panicked is set when
\* an assertion failed (the program aborts); n_calls counts the calls other
\* than tick.
\* start is "armed" from a start_looping() until the first tick at or after
\* the boundary start_B computed by that call, "fired" after that tick and
\* "idle" after the tick that follows, and after a stop_looping(),
\* set_grid_interval() or reset(); start_g is the grid at the call and
\* start_left the events that were pending at the call and are still to be
\* returned.  stop is "armed" from a stop_looping() until the first tick at
\* or after its boundary stop_B and "fired" from then on, until a
\* start_looping() or reset().  pre_start and pre_stop are start and stop
\* before the last tick, and left_due the events of start_left that this
\* tick was due to return.
\* grain_end is the song time at which the grain of the last StartGrain or
\* StartLegatoGrain returned ends (the tick time plus its duration), NoTime
\* when none was returned since the last call other than a tick or a
\* lengthening while looping; pre_end is grain_end before the last call; hit
\* says that every tick since grain_end was last NoTime returned its events at
\* their scheduled times, none late, and that the lead-in was not changed
\* while looping.
\* last_tick is the time of the last tick that passed its assertion, NoTime
\* before the first, and pre_tick is last_tick before the last call.
\* lengthened holds from a set_grid_interval() that lengthened the grid while
\* looping until the next call other than tick.
\* dry follows the looping session: "pending" from start_looping() until a
\* tick returns a FadeOutDry or a grain start, then "faded" when that tick
\* returned a FadeOutDry and "wet" when it returned a grain start without
\* one; "none" before the first session, and after stop_looping() and
\* reset().
NoTime == R(-1)

IsGrainStart(e) == e.kind \in {"StartGrain", "StartLegatoGrain"}

LSHistInit ==
    [op |-> "new", arg |-> ZeroR, pre |-> LoopScheduler_new, out |-> <<>>,
     panicked |-> FALSE, n_calls |-> 0,
     start |-> "idle", start_B |-> ZeroR, start_g |-> ZeroR, start_left |-> <<>>,
     stop |-> "idle", stop_B |-> ZeroR,
     pre_start |-> "idle", pre_stop |-> "idle", left_due |-> <<>>,
     grain_end |-> NoTime, pre_end |-> NoTime, hit |-> TRUE,
     last_tick |-> NoTime, pre_tick |-> NoTime,
     lengthened |-> FALSE, dry |-> "none"]

\* the history once a call is recorded
LSCalled(op, arg, is_tick) ==
    [ls_h EXCEPT !.op = op, !.arg = arg, !.pre = ls, !.out = <<>>,
                 !.n_calls = IF is_tick THEN ls_h.n_calls ELSE ls_h.n_calls + 1,
                 !.pre_start = "idle", !.pre_stop = "idle", !.left_due = <<>>,
                 !.pre_end = ls_h.grain_end, !.pre_tick = ls_h.last_tick,
                 !.lengthened = is_tick /\ ls_h.lengthened]

LSChainReset(h) == [h EXCEPT !.grain_end = NoTime, !.hit = TRUE]

\* the end of the last grain started by the events out returned at beat_time
LSGrainEnd(out, beat_time, before) ==
    LET starts == SelectSeq(out, IsGrainStart)
    IN  IF Len(starts) = 0 THEN before
        ELSE RAdd(beat_time, starts[Len(starts)].duration)

\* no event of l that is due at beat_time was scheduled before beat_time
LSHitsAll(l, beat_time) ==
    \A i \in 1..Len(l.scheduler) :
        RLeq(l.scheduler[i][1], beat_time) => l.scheduler[i][1] = beat_time

\* dry after a tick that returned out
LSDryAfter(dry, out) ==
    LET IsFadeOut(e) == e = FadeOutDry
    IN  IF dry # "pending" THEN dry
        ELSE IF Len(SelectSeq(out, IsFadeOut)) > 0 THEN "faded"
        ELSE IF Len(SelectSeq(out, IsGrainStart)) > 0 THEN "wet"
        ELSE "pending"

LSStartIdle(h) ==
    [h EXCEPT !.start = "idle", !.start_B = ZeroR, !.start_g = ZeroR,
              !.start_left = <<>>]

LSInitState ==
    /\ ls = LoopScheduler_new
    /\ ls_h = LSHistInit

LSTick ==
    /\ ~ls_h.panicked
    /\ \E beat_time \in LSTimes :
        LET h0 == LSCalled("tick", beat_time, TRUE)
            h == [h0 EXCEPT
                    !.grain_end = LSGrainEnd(LoopScheduler_tick_out(ls, beat_time),
                                             beat_time, ls_h.grain_end),
                    !.hit = ls_h.hit /\ LSHitsAll(ls, beat_time),
                    !.last_tick = beat_time,
                    !.dry = LSDryAfter(ls_h.dry,
                                       LoopScheduler_tick_out(ls, beat_time))]
            Due(e) == RLeq(e[1], beat_time)
            Later(e) == ~RLeq(e[1], beat_time)
            due == SelectSeq(ls_h.start_left, Due)
            h1 == [h EXCEPT !.out = LoopScheduler_tick_out(ls, beat_time),
                            !.pre_start = ls_h.start,
                            !.pre_stop = ls_h.stop,
                            !.left_due = [i \in 1..Len(due) |-> due[i][2]],
                            !.start_left = SelectSeq(ls_h.start_left, Later),
                            !.stop = IF ls_h.stop = "armed"
                                        /\ RLeq(ls_h.stop_B, beat_time)
                                     THEN "fired" ELSE ls_h.stop]
        IN  IF LoopScheduler_tick_ok(ls, beat_time)
            THEN /\ ls' = LoopScheduler_tick(ls, beat_time)
                 /\ ls_h' = IF ls_h.start = "armed" /\ RLeq(ls_h.start_B, beat_time)
                            THEN [h1 EXCEPT !.start = "fired"]
                            ELSE IF ls_h.start = "fired"
                                 THEN LSStartIdle(h1) ELSE h1
            ELSE /\ ls' = ls
                 /\ ls_h' = [h0 EXCEPT !.panicked = TRUE]
    /\ UNCHANGED LoopSchedulerOthers

LSStart ==
    /\ ~ls_h.panicked
    /\ ls_h.n_calls < MaxLSCalls
    /\ LET h == LSChainReset(LSCalled("start_looping", ZeroR, FALSE))
       IN  IF LoopScheduler_start_looping_ok(ls)
           THEN /\ ls' = LoopScheduler_start_looping(ls)
                /\ ls_h' = [h EXCEPT
                       !.start = "armed",
                       !.start_B = next_grid_in_beats(ls.current_song_time,
                                       ls.grid_interval, ls.fade_in_time),
                       !.start_g = ls.grid_interval,
                       !.start_left = ls.scheduler,
                       !.stop = "idle", !.stop_B = ZeroR,
                       !.dry = "pending"]
           ELSE /\ ls' = ls
                /\ ls_h' = [h EXCEPT !.panicked = TRUE]
    /\ UNCHANGED LoopSchedulerOthers

LSStop ==
    /\ ~ls_h.panicked
    /\ ls_h.n_calls < MaxLSCalls
    /\ LET h == LSChainReset(LSCalled("stop_looping", ZeroR, FALSE))
       IN  IF LoopScheduler_stop_looping_ok(ls)
           THEN /\ ls' = LoopScheduler_stop_looping(ls)
                /\ ls_h' = [LSStartIdle(h) EXCEPT
                       !.dry = "none",
                       !.stop = "armed",
                       !.stop_B = next_grid_in_beats(ls.current_song_time,
                                      ls.grid_interval, ls.fade_in_time)]
           ELSE /\ ls' = ls
                /\ ls_h' = [h EXCEPT !.panicked = TRUE]
    /\ UNCHANGED LoopSchedulerOthers

LSSetGrid ==
    /\ ~ls_h.panicked
    /\ ls_h.n_calls < MaxLSCalls
    /\ \E new_interval \in LSGrids :
        LET h0 == LSCalled("set_grid_interval", new_interval, FALSE)
            h == IF ls.is_looping /\ RLeq(ls.grid_interval, new_interval)
                 THEN h0 ELSE LSChainReset(h0)
        IN  IF LoopScheduler_set_grid_interval_ok(ls, new_interval)
            THEN /\ ls' = LoopScheduler_set_grid_interval(ls, new_interval)
                 /\ ls_h' = [LSStartIdle(h) EXCEPT
                                !.lengthened = /\ ls.is_looping
                                               /\ RLess(ls.grid_interval,
                                                        new_interval)]
            ELSE /\ ls' = ls
                 /\ ls_h' = [h EXCEPT !.panicked = TRUE]
    /\ UNCHANGED LoopSchedulerOthers

LSSetFade ==
    /\ ~ls_h.panicked
    /\ ls_h.n_calls < MaxLSCalls
    /\ \E fade_in \in LSFades :
        /\ ls' = LoopScheduler_set_fade_lead_in(ls, fade_in)
        /\ ls_h' = IF ls.is_looping
                   THEN [LSCalled("set_fade_lead_in", fade_in, FALSE)
                            EXCEPT !.hit = FALSE]
                   ELSE LSChainReset(LSCalled("set_fade_lead_in", fade_in, FALSE))
    /\ UNCHANGED LoopSchedulerOthers

LSReset ==
    /\ ~ls_h.panicked
    /\ ls_h.n_calls < MaxLSCalls
    /\ ls' = LoopScheduler_reset(ls)
    /\ ls_h' = [LSStartIdle(LSChainReset(LSCalled("reset", ZeroR, FALSE))) EXCEPT
                    !.stop = "idle", !.stop_B = ZeroR, !.dry = "none"]
    /\ UNCHANGED LoopSchedulerOthers

LSNext == LSTick \/ LSStart \/ LSStop \/ LSSetGrid \/ LSSetFade \/ LSReset

-----------------------------------------------------------------------------
(* GrainLooper (grain_looper.rs): owns the rolling and the static buffer,   *)
(* a dry ramp and a grain player.  The grain player it calls (new(),        *)
(* set_fade_time, set_reverse, schedule_grain(wait, offset, duration),      *)
(* tick(buffer, offset), stop_all_grains) is the grain pool without buffers *)
(* of its own; it is modelled as the record [grains, fade_duration,         *)
(* reverse].                                                                *)

\* `x as usize` for an f32 x: truncated toward zero, negative values give 0
f32_as_usize(x) == IF RLess(x, ZeroR) THEN 0 ELSE RFloor(x)

\* usize::MAX, the usize values being kept modulo 2^64 by their signed
\* representative
USIZE_MAX == -1

\* GrainPlayer::new()
LooperPlayer_new ==
    [grains |-> [i \in 1..MAX_GRAINS |-> Grain_new(0, ZeroR, 0, 0, FALSE, ZeroR)],
     fade_duration |-> 0,
     reverse |-> FALSE]

\* schedule_grain(wait, offset, duration): a grain with the player's fade and
\* direction takes the first finished slot, and is dropped when there is none
LooperPlayer_schedule_grain(p, wait, offset, duration) ==
    IF FinishedSlots(p) = {}
    THEN p
    ELSE [p EXCEPT !.grains[SetMin(FinishedSlots(p))] =
              Grain_new(wait, R(offset), duration, p.fade_duration, p.reverse, OneR)]

LooperPlayer_stop_all_grains(p) ==
    [p EXCEPT !.grains = [i \in 1..Len(p.grains) |-> Grain_stop(p.grains[i])]]

GrainLooper_new_with_length(sample_rate, loopable_region_length, max_fade_time) ==
    [grain_player |-> LooperPlayer_new,
     is_looping |-> FALSE,
     sample_rate |-> sample_rate,
     ticks_till_next_loop |-> USIZE_MAX,
     rolling_buffer |-> DelayLine_new(loopable_region_length * 2 + max_fade_time),
     static_buffer |-> DelayLine_new(loopable_region_length + max_fade_time),
     rolling_offset |-> 0,
     use_static_buffer |-> FALSE,
     loopable_region_length |-> loopable_region_length,
     loop_offset |-> 0,
     loop_duration |-> 0,
     fade_duration |-> 0,
     fade_allowance |-> max_fade_time,
     dry_ramp |-> RampedValue_new(OneR)]

\* set_fade_time: its assertion
GrainLooper_set_fade_time_ok(l, fade) ==
    f32_as_usize(RMul(fade, l.sample_rate)) <= l.fade_allowance

GrainLooper_set_fade_time(l, fade) ==
    LET fade_samples == f32_as_usize(RMul(fade, l.sample_rate))
    IN  [l EXCEPT !.grain_player.fade_duration = fade_samples,
                  !.fade_duration = fade_samples]

GrainLooper_set_loop_offset(l, offset_seconds) ==
    [l EXCEPT !.loop_offset = f32_as_usize(RMul(offset_seconds, l.sample_rate))]

\* set_loop_duration: its assertion
GrainLooper_set_loop_duration_ok(l, duration_seconds) ==
    f32_as_usize(RMul(duration_seconds, l.sample_rate)) + l.fade_duration
        <= l.loopable_region_length

GrainLooper_set_loop_duration(l, duration_seconds) ==
    [l EXCEPT !.loop_duration = f32_as_usize(RMul(duration_seconds, l.sample_rate))]

GrainLooper_start_looping(l, loop_start_time_seconds) ==
    LET wait == f32_as_usize(RMul(loop_start_time_seconds, l.sample_rate))
    IN  [l EXCEPT
            !.is_looping = TRUE,
            !.grain_player =
                LooperPlayer_schedule_grain(l.grain_player, wait,
                    l.loop_offset + l.fade_duration,
                    l.loop_duration + l.fade_duration),
            !.ticks_till_next_loop = wait + l.loop_duration,
            !.rolling_offset = 0,
            !.use_static_buffer = FALSE,
            !.dry_ramp = RampedValue_ramp(RampedValue_set(l.dry_ramp, OneR),
                                          ZeroR, l.fade_duration)]

GrainLooper_stop_looping(l) ==
    [l EXCEPT
        !.is_looping = FALSE,
        !.ticks_till_next_loop = USIZE_MAX,
        !.grain_player = LooperPlayer_stop_all_grains(l.grain_player),
        !.dry_ramp = RampedValue_ramp(RampedValue_set(l.dry_ramp, ZeroR),
                                      OneR, l.fade_duration)]

GrainLooper_set_reverse(l, reverse) ==
    [l EXCEPT !.grain_player.reverse = reverse]

\* tick_next_loop_trigger: the counter is 0 when it is decremented (a loop of
\* duration 0 was just scheduled), so that the subtraction overflows
GrainLooper_trigger_overflows(l) ==
    l.ticks_till_next_loop = 0 /\ l.loop_duration = 0

GrainLooper_tick_next_loop_trigger(l) ==
    IF l.ticks_till_next_loop = 0
    THEN [l EXCEPT
            !.grain_player =
                LooperPlayer_schedule_grain(l.grain_player, 0,
                    l.loop_offset + l.fade_duration,
                    l.loop_duration + l.fade_duration),
            !.ticks_till_next_loop = l.loop_duration - 1]
    ELSE [l EXCEPT !.ticks_till_next_loop = l.ticks_till_next_loop - 1]

GrainLooper_ticks_before_switch_to_static_buffer(l) ==
    l.loopable_region_length + l.fade_allowance

GrainLooper_tick_static_buffer_copy(l) ==
    IF l.use_static_buffer \/ ~l.is_looping
    THEN l
    ELSE [l EXCEPT
            !.static_buffer =
                DelayLine_tick(l.static_buffer,
                    DelayLine_read(l.rolling_buffer, l.loopable_region_length)),
            !.use_static_buffer =
                l.rolling_offset >= GrainLooper_ticks_before_switch_to_static_buffer(l)]

\* tick: the looper once the input is written and the loop trigger has run,
\* before the grains are read
GrainLooper_tick_written(l, input) ==
    GrainLooper_tick_next_loop_trigger(
        [l EXCEPT !.rolling_buffer = DelayLine_tick(l.rolling_buffer, input),
                  !.rolling_offset = l.rolling_offset + 1])

\* tick: the buffer the grains read and the offset added to their positions
GrainLooper_read_buffer(l) ==
    IF l.use_static_buffer THEN l.static_buffer ELSE l.rolling_buffer

\* a read offset that forgets the fade allowance kept at the head of the
\* static buffer
GrainLooper_read_offset_no_allowance(l) ==
    IF l.use_static_buffer THEN 0 ELSE l.rolling_offset

GrainLooper_read_offset(l) ==
    IF l.use_static_buffer THEN l.fade_allowance ELSE l.rolling_offset

\* tick: no assertion of the grain reads or of the static copy fails
GrainLooper_tick_ok(l, input) ==
    LET w == GrainLooper_tick_written(l, input)
    IN  /\ read_grains_ok(w.grain_player.grains, GrainLooper_read_buffer(w),
                          GrainLooper_read_offset(w))
        /\ (w.use_static_buffer \/ ~w.is_looping
            \/ DelayLine_read_ok(w.rolling_buffer, w.loopable_region_length))

\* tick: the value returned, looped + dry_level * dry
GrainLooper_tick_out(l, input) ==
    LET w == GrainLooper_tick_written(l, input)
        looped == read_grains_out(w.grain_player.grains, GrainLooper_read_buffer(w),
                                  GrainLooper_read_offset(w))
        dry_level == RampedValue_tick_out(w.dry_ramp)
    IN  RAdd(looped, RMul(dry_level, input))

GrainLooper_tick(l, input) ==
    LET w == GrainLooper_tick_written(l, input)
        r == [w EXCEPT !.grain_player.grains = read_grains(w.grain_player.grains)]
        c == GrainLooper_tick_static_buffer_copy(r)
    IN  [c EXCEPT !.dry_ramp = RampedValue_tick(w.dry_ramp)]

-----------------------------------------------------------------------------
(* SpecLooper: one GrainLooper driven by tick, the setters, start_looping   *)
(* and stop_looping.  The input is either the constant 1 or the ramp whose  *)
(* k-th sample is k.  The setters are called, in any order and any number   *)
(* of times, until the first start_looping() or stop_looping(); the start   *)
(* times given to start_looping() are below one sample.                     *)

MaxLooperCalls == 3

LooperSampleRate == R(10)

\* the <<loopable_region_length, max_fade_time>> the looper is built with
LooperSizes == {<<1, 0>>, <<2, 1>>}

\* times in seconds that come to 0..n samples, in steps of half a sample
LooperSeconds(n) == {RDiv(RNorm(k, 2), LooperSampleRate) : k \in 0..(2 * n + 1)}

\* the ticks of a run: they fill the rolling buffer, and one more
MaxLooperTicks(l) == DelayLine_len(l.rolling_buffer) + 1

\* History.  constant says which input is fed; n_in counts the ticks and
\* n_calls the start_looping() and stop_looping() calls; op is the last call, input and out what the last
\* tick was given and returned; panicked is set when an assertion failed.
\* started: start_looping() was called.  plain: no fade but 0 was ever set and
\* set_reverse(true) was never called.  loop is "on" from a start_looping(0)
\* that found the looper plain and not looping, with loop offset = loop
\* duration = loop_D >= 1 and at least loop_D ticks before it, until the next
\* call other than tick; that call makes it "off" when it is stop_looping()
\* and "none" otherwise; loop_s is n_in at that start_looping().
\* flat: every start_looping() so far had a start time of 0 and found the
\* looper not looping, with a fade from 1 up to the loop duration, fade and
\* loop duration together within the loopable region, at least loop offset +
\* fade ticks before it, and a free grain slot; every grain of the loop
\* trigger found a free slot; and every stop_looping() found the looper
\* looping.
LooperHistInit(c) ==
    [constant |-> c, n_in |-> 0, n_calls |-> 0, op |-> "new",
     input |-> ZeroR, out |-> ZeroR, panicked |-> FALSE,
     started |-> FALSE, plain |-> TRUE,
     loop |-> "none", loop_D |-> 0, loop_s |-> 0,
     flat |-> TRUE]

\* the history once a start_looping() or stop_looping() is recorded
LooperCalled(op) ==
    [gl_h EXCEPT !.op = op, !.n_calls = gl_h.n_calls + 1,
                 !.loop = "none", !.loop_D = 0, !.loop_s = 0]

LooperInitState ==
    \E size \in LooperSizes, c \in BOOLEAN :
        /\ gl = GrainLooper_new_with_length(LooperSampleRate, size[1], size[2])
        /\ gl_h = LooperHistInit(c)

LooperTick ==
    /\ ~gl_h.panicked
    /\ gl_h.n_in < MaxLooperTicks(gl)
    /\ LET input == IF gl_h.constant THEN OneR ELSE R(gl_h.n_in + 1)
           h == [gl_h EXCEPT !.op = "tick", !.n_in = gl_h.n_in + 1,
                             !.input = input]
           drops == /\ gl.ticks_till_next_loop = 0
                    /\ FinishedSlots(gl.grain_player) = {}
       IN  \/ /\ GrainLooper_tick_ok(gl, input)
              /\ gl' = GrainLooper_tick(gl, input)
              /\ gl_h' = [h EXCEPT !.out = GrainLooper_tick_out(gl, input),
                                   !.flat = gl_h.flat /\ ~drops]
           \/ /\ ~GrainLooper_tick_ok(gl, input)
                    \/ GrainLooper_trigger_overflows(gl)
              /\ gl' = gl
              /\ gl_h' = [h EXCEPT !.panicked = TRUE]
    /\ UNCHANGED LooperOthers

LooperSetFadeTime ==
    /\ ~gl_h.panicked
    /\ gl_h.n_calls = 0
    /\ \E fade \in LooperSeconds(gl.fade_allowance + 1) :
        LET h == [gl_h EXCEPT
                     !.op = "set_fade_time",
                     !.plain = gl_h.plain
                               /\ f32_as_usize(RMul(fade, gl.sample_rate)) = 0]
        IN  IF GrainLooper_set_fade_time_ok(gl, fade)
            THEN gl' = GrainLooper_set_fade_time(gl, fade) /\ gl_h' = h
            ELSE gl' = gl /\ gl_h' = [h EXCEPT !.panicked = TRUE]
    /\ UNCHANGED LooperOthers

LooperSetLoopOffset ==
    /\ ~gl_h.panicked
    /\ gl_h.n_calls = 0
    /\ \E offset_seconds \in LooperSeconds(gl.loopable_region_length) :
        /\ gl' = GrainLooper_set_loop_offset(gl, offset_seconds)
        /\ gl_h' = [gl_h EXCEPT !.op = "set_loop_offset"]
    /\ UNCHANGED LooperOthers

LooperSetLoopDuration ==
    /\ ~gl_h.panicked
    /\ gl_h.n_calls = 0
    /\ \E duration_seconds \in LooperSeconds(gl.loopable_region_length + 1) :
        LET h == [gl_h EXCEPT !.op = "set_loop_duration"]
        IN  IF GrainLooper_set_loop_duration_ok(gl, duration_seconds)
            THEN gl' = GrainLooper_set_loop_duration(gl, duration_seconds) /\ gl_h' = h
            ELSE gl' = gl /\ gl_h' = [h EXCEPT !.panicked = TRUE]
    /\ UNCHANGED LooperOthers

LooperSetReverse ==
    /\ ~gl_h.panicked
    /\ gl_h.n_calls = 0
    /\ \E reverse \in BOOLEAN :
        /\ gl' = GrainLooper_set_reverse(gl, reverse)
        /\ gl_h' = [gl_h EXCEPT !.op = "set_reverse",
                                !.plain = gl_h.plain /\ ~reverse]
    /\ UNCHANGED LooperOthers

LooperStartLooping ==
    /\ ~gl_h.panicked
    /\ gl_h.n_calls < MaxLooperCalls
    /\ \E loop_start_time_seconds \in LooperSeconds(0) :
        LET wait == f32_as_usize(RMul(loop_start_time_seconds, gl.sample_rate))
            D == gl.loop_duration
            loops == /\ wait = 0 /\ gl_h.plain /\ ~gl.is_looping
                     /\ D >= 1 /\ gl.loop_offset = D /\ gl_h.n_in >= D
        IN  /\ gl' = GrainLooper_start_looping(gl, loop_start_time_seconds)
            /\ gl_h' = [LooperCalled("start_looping") EXCEPT
                   !.started = TRUE,
                   !.loop = IF loops THEN "on" ELSE "none",
                   !.loop_D = IF loops THEN D ELSE 0,
                   !.loop_s = IF loops THEN gl_h.n_in ELSE 0,
                   !.flat = /\ gl_h.flat /\ wait = 0 /\ ~gl.is_looping
                            /\ gl.fade_duration >= 1 /\ gl.fade_duration <= D
                            /\ D + gl.fade_duration <= gl.loopable_region_length
                            /\ gl_h.n_in >= gl.loop_offset + gl.fade_duration
                            /\ FinishedSlots(gl.grain_player) # {}]
    /\ UNCHANGED LooperOthers

LooperStopLooping ==
    /\ ~gl_h.panicked
    /\ gl_h.n_calls < MaxLooperCalls
    /\ gl' = GrainLooper_stop_looping(gl)
    /\ gl_h' = [LooperCalled("stop_looping") EXCEPT
                   !.loop = IF gl_h.loop = "on" THEN "off" ELSE "none",
                   !.flat = gl_h.flat /\ gl.is_looping]
    /\ UNCHANGED LooperOthers

LooperNext ==
    \/ LooperTick \/ LooperSetFadeTime \/ LooperSetLoopOffset
    \/ LooperSetLoopDuration \/ LooperSetReverse \/ LooperStartLooping
    \/ LooperStopLooping

-----------------------------------------------------------------------------
(* SpecGrid: next_grid_in_beats applied once to a song time, a grid interval *)
(* and a lead-in.  The song times are multiples of half a beat from -1, the  *)
(* song time of a new LoopScheduler, on.                                     *)

\* largest song time passed to next_grid_in_beats, in half beats
MaxGridHalves == 8

GridTimes == {RNorm(k, 2) : k \in 0..MaxGridHalves} \cup {R(-1)}
GridIntervals == {RNorm(1, 2), OneR, RNorm(3, 2), R(2), R(3)}
GridLeads == {ZeroR, RNorm(1, 2), OneR, RNorm(3, 2)}

\* a call that is still to be made
GridCall(song_time, grid_interval, grid_offset) ==
    [song_time |-> song_time, grid_interval |-> grid_interval,
     grid_offset |-> grid_offset, called |-> FALSE, out |-> ZeroR]

GridInitState ==
    \E t \in GridTimes, g \in GridIntervals, o \in GridLeads :
        ng = GridCall(t, g, o)

GridApply ==
    /\ ~ng.called
    /\ ng' = [ng EXCEPT
                !.called = TRUE,
                !.out = next_grid_in_beats(ng.song_time, ng.grid_interval,
                                           ng.grid_offset)]
    /\ UNCHANGED GridOthers

GridNext == GridApply

-----------------------------------------------------------------------------
(* The specifications: each drives one component and leaves the others as   *)
(* constructed with the smallest arguments.                                 *)

DLIdle == dl = DelayLine_new(1) /\ dl_hist = <<>>
RVIdle == rv = RampedValue_new(ZeroR) /\ rv_h = RVHistInit(ZeroR)
GrainIdle ==
    /\ grain = Grain_new(0, ZeroR, 0, 0, FALSE, ZeroR)
    /\ gr_h = GrainHistInit(Grain_new(0, ZeroR, 0, 0, FALSE, ZeroR), FALSE, ZeroR)
PlayerIdle == gp = GrainPlayer_new_with_length(1, 0) /\ gp_h = PlayerHistInit
SchedulerIdle == sch = Scheduler_new /\ sch_h = SchedulerHistInit
LoopSchedulerIdle == ls = LoopScheduler_new /\ ls_h = LSHistInit
LooperIdle ==
    /\ gl = GrainLooper_new_with_length(LooperSampleRate, 1, 0)
    /\ gl_h = LooperHistInit(FALSE)
GridIdle == ng = GridCall(ZeroR, OneR, ZeroR)

InitDelayLine ==
    /\ DLInitState /\ RVIdle /\ GrainIdle /\ PlayerIdle /\ SchedulerIdle
    /\ LoopSchedulerIdle /\ LooperIdle /\ GridIdle
InitRamped ==
    /\ DLIdle /\ RVInitState /\ GrainIdle /\ PlayerIdle /\ SchedulerIdle
    /\ LoopSchedulerIdle /\ LooperIdle /\ GridIdle
InitGrain ==
    /\ DLIdle /\ RVIdle /\ GrainInitState /\ PlayerIdle /\ SchedulerIdle
    /\ LoopSchedulerIdle /\ LooperIdle /\ GridIdle
InitPlayer ==
    /\ DLIdle /\ RVIdle /\ GrainIdle /\ PlayerInitState /\ SchedulerIdle
    /\ LoopSchedulerIdle /\ LooperIdle /\ GridIdle
InitScheduler ==
    /\ DLIdle /\ RVIdle /\ GrainIdle /\ PlayerIdle /\ SchedulerInitState
    /\ LoopSchedulerIdle /\ LooperIdle /\ GridIdle
InitLoopScheduler ==
    /\ DLIdle /\ RVIdle /\ GrainIdle /\ PlayerIdle /\ SchedulerIdle
    /\ LSInitState /\ LooperIdle /\ GridIdle
InitLooper ==
    /\ DLIdle /\ RVIdle /\ GrainIdle /\ PlayerIdle /\ SchedulerIdle
    /\ LoopSchedulerIdle /\ LooperInitState /\ GridIdle
InitPool ==
    /\ DLIdle /\ RVIdle /\ GrainIdle /\ PoolInitState /\ SchedulerIdle
    /\ LoopSchedulerIdle /\ LooperIdle /\ GridIdle
InitGrid ==
    /\ DLIdle /\ RVIdle /\ GrainIdle /\ PlayerIdle /\ SchedulerIdle
    /\ LoopSchedulerIdle /\ LooperIdle /\ GridInitState

SpecDelayLine == InitDelayLine /\ [][DLNext]_vars
SpecRamped == InitRamped /\ [][RVNext]_vars
SpecGrain == InitGrain /\ [][GrainNext]_vars
SpecPlayer == InitPlayer /\ [][PlayerNext]_vars
SpecScheduler == InitScheduler /\ [][SchedulerNext]_vars
SpecLoopScheduler == InitLoopScheduler /\ [][LSNext]_vars
SpecLooper == InitLooper /\ [][LooperNext]_vars
SpecPool == InitPool /\ [][PoolNext]_vars
SpecGrid == InitGrid /\ [][GridNext]_vars


-----------------------------------------------------------------------------
(* DelayLine properties (SpecDelayLine) *)

\* C1: for every d below the capacity, read(d) returns the value of the
\* (d+1)-th most recent tick, or the default sample when fewer than d+1 ticks
\* happened since construction or the last reset(); the write index stays in
\* [0, N).
C1_ReadReturnsDelayed ==
    /\ dl.write_index \in 0..(Len(dl.buffer) - 1)
    /\ \A d \in 0..(Len(dl.buffer) - 1) :
        /\ DelayLine_read_ok(dl, d)
        /\ DelayLine_read(dl, d) =
              IF d + 1 <= Len(dl_hist) THEN dl_hist[d + 1] ELSE ZeroR

\* a buffer of capacity 3 that has wrapped, holding three different samples
C1_Witness ==
    /\ Len(dl.buffer) = 3
    /\ dl.write_index = 1
    /\ dl_hist = <<R(1), R(0), R(2)>>
    /\ DelayLine_read(dl, 2) = R(2)

-----------------------------------------------------------------------------
(* RampedValue properties (SpecRamped) *)

C3_RampInterpolatesFromHeld ==
    (rv_h.ramp_armed /\ rv_h.ramp_k >= 1 /\ rv_h.ramp_k <= rv_h.ramp_n + 1)
        => rv_h.last_out =
              RAdd(rv_h.ramp_start,
                   RMul(RSub(rv_h.ramp_target, rv_h.ramp_start),
                        RNorm(rv_h.ramp_k, rv_h.ramp_n + 1)))

\* C4: after set(v), with no later ramp(), every tick returns v.
C4_SetCancelsRamp ==
    (rv_h.set_armed /\ rv_h.set_k >= 1) => rv_h.last_out = rv_h.set_v

-----------------------------------------------------------------------------
(* Grain properties (SpecGrain) *)

\* C5: a grain with wait w and duration D >= 1 that is never stopped returns
\* (0,0) on its first w ticks without advancing position or elapsed count, is
\* not finished after any of its first w+D-1 ticks, is finished on its
\* (w+D)-th tick with elapsed_sample_count = duration, and returns (0,0) on
\* every later tick.
C5_GrainLifetime ==
    (~gr_h.stopped /\ gr_h.d0 >= 1) =>
        /\ gr_h.n_ticks <= gr_h.w0 =>
              /\ gr_h.has_out => gr_h.last_out = <<ZeroR, ZeroR>>
              /\ grain.delay_pos = gr_h.start_delay
              /\ grain.elapsed_sample_count = 0
        /\ gr_h.n_ticks < gr_h.w0 + gr_h.d0 => ~Grain_is_finished(grain)
        /\ gr_h.n_ticks >= gr_h.w0 + gr_h.d0 =>
              /\ Grain_is_finished(grain)
              /\ grain.elapsed_sample_count = grain.duration
              /\ grain.duration = gr_h.d0
        /\ gr_h.n_ticks > gr_h.w0 + gr_h.d0 => gr_h.last_out = <<ZeroR, ZeroR>>

\* a faded grain that waited two ticks, played to its end and was ticked again
C5_Witness ==
    /\ ~gr_h.stopped
    /\ gr_h.w0 = 2
    /\ gr_h.d0 >= 3
    /\ grain.fade_duration >= 1
    /\ gr_h.n_ticks = gr_h.w0 + gr_h.d0 + 1
    /\ Grain_is_finished(grain)
    /\ gr_h.last_out = <<ZeroR, ZeroR>>

\* C6: after stop() on a grain that is not finished and not yet in its
\* fade-out region, exactly fade_duration further active ticks follow, each
\* with a non-zero gain, and the grain is finished right after them.
C6_StopFadesOut ==
    gr_h.armed =>
        /\ Len(gr_h.post_gains) <= grain.fade_duration
        /\ Grain_is_finished(grain) <=> Len(gr_h.post_gains) = grain.fade_duration
        /\ \A i \in 1..Len(gr_h.post_gains) : gr_h.post_gains[i] # ZeroR

\* a grain stopped on its plateau, well before its end, after its two fade ticks
C6_Witness ==
    /\ gr_h.armed
    /\ gr_h.at_elapsed >= 3
    /\ grain.fade_duration = 2
    /\ gr_h.d0 > gr_h.at_elapsed + 2
    /\ Len(gr_h.post_gains) = 2
    /\ Grain_is_finished(grain)

\* C7: stop() is idempotent: stop() twice leaves what one stop() leaves, and
\* a stop() after an earlier stop(), or during the fade-out, changes nothing.
C7_StopIdempotent ==
    /\ Grain_stop(Grain_stop(grain)) = Grain_stop(grain)
    /\ (gr_h.stopped \/ Grain_is_fading_out(grain)) => Grain_stop(grain) = grain

\* a grain in the middle of the fade-out an earlier stop() started
C7_Witness ==
    /\ gr_h.armed
    /\ gr_h.at_elapsed >= 1
    /\ grain.fade_duration >= 2
    /\ Len(gr_h.post_gains) = 1
    /\ ~Grain_is_finished(grain)
    /\ grain.duration < gr_h.d0

\* C8: after stop() on a non-finished grain with fade_duration >= 1 outside
\* its fade-out region, the gains of the remaining active ticks are strictly
\* decreasing, and the first of them is no higher than the last gain returned
\* before stop().
C8_StopFadesDownOnly ==
    (gr_h.armed /\ grain.fade_duration >= 1) =>
        /\ \A i \in 2..Len(gr_h.post_gains) :
              RLess(gr_h.post_gains[i], gr_h.post_gains[i - 1])
        /\ (gr_h.at_elapsed >= 1 /\ Len(gr_h.post_gains) >= 1) =>
              RLeq(gr_h.post_gains[1], gr_h.pre_gain)

-----------------------------------------------------------------------------
(* GrainPlayer properties (SpecPlayer) *)

\* what schedule_grain(g) is to make of player p: q
SchedulePost(p, q, g) ==
    /\ Len(q.grains) = MAX_GRAINS
    /\ [q EXCEPT !.grains = p.grains] = p
    /\ IF \E i \in 1..Len(p.grains) : Grain_is_finished(p.grains[i])
       THEN \E k \in 1..Len(p.grains) :
               /\ Grain_is_finished(p.grains[k])
               /\ \A j \in 1..(k - 1) : ~Grain_is_finished(p.grains[j])
               /\ q.grains[k] = g
               /\ \A j \in 1..Len(p.grains) : j # k => q.grains[j] = p.grains[j]
       ELSE q.grains = p.grains

\* C9: schedule_grain installs the grain into the lowest-index finished slot
\* and changes no other slot; with no finished slot the grain is dropped and
\* every slot is left unchanged; the pool keeps its MAX_GRAINS slots.
C9_ScheduleFirstFinished ==
    [][\A g \in PlayerGrains :
          (gp_h'.sched # "none" /\ gp' = GrainPlayer_schedule_grain(gp, g))
              => SchedulePost(gp, gp', g)]_vars

\* a schedule_grain call that found every slot taken
C9_Witness ==
    /\ gp_h.sched = "dropped"
    /\ \A i \in 1..MAX_GRAINS : ~Grain_is_finished(gp.grains[i])

\* C10: after start_looping(), with no start_looping()/stop_looping() since,
\* the player is filling and not using the static buffer through the first
\* L+F-1 ticks and uses it from the (L+F)-th tick, when exactly L+F samples,
\* the static buffer's capacity, have been copied.
C10_SwitchAfterFill ==
    (gp_h.loop_armed =>
        LET T == gp.loopable_region_length + gp.fade_allowance
        IN  /\ gp_h.since_start < T =>
                  /\ gp.is_filling_static_buffer
                  /\ ~gp.use_static_buffer
                  /\ gp_h.copied = gp_h.since_start
            /\ gp_h.since_start >= T =>
                  /\ gp.use_static_buffer
                  /\ ~gp.is_filling_static_buffer
                  /\ gp_h.copied = T
                  /\ Len(gp.static_buffer.buffer) = T)

\* the tick of the switch, for L = 2 and F = 1, after some input before the loop
C10_Witness ==
    /\ gp_h.loop_armed
    /\ gp.loopable_region_length = 2
    /\ gp.fade_allowance = 1
    /\ gp_h.since_start = 3
    /\ gp_h.n_in > 3
    /\ gp.use_static_buffer


-----------------------------------------------------------------------------
\* C11: once the player uses the static buffer, a tick(), a schedule_grain()
\* or a stop_all_grains() leaves the static buffer (contents and write index)
\* as it was and leaves the player on the static buffer, while after the
\* tick() the rolling buffer holds the newest inputs: delay k reads the input
\* k samples back.
C11_StaticBufferStable ==
    gp.use_static_buffer =>
        /\ \A g \in PlayerGrains :
              LET q == GrainPlayer_schedule_grain(gp, g)
              IN  q.static_buffer = gp.static_buffer /\ q.use_static_buffer
        /\ LET q == GrainPlayer_stop_all_grains(gp)
           IN  q.static_buffer = gp.static_buffer /\ q.use_static_buffer
        /\ LET q == GrainPlayer_tick(gp, R(gp_h.n_in + 1))
           IN  /\ q.static_buffer = gp.static_buffer
               /\ q.use_static_buffer
               /\ \A k \in 0..(DelayLine_len(q.rolling_buffer) - 1) :
                     k <= gp_h.n_in =>
                         DelayLine_read(q.rolling_buffer, k) = R(gp_h.n_in + 1 - k)

\* ticks went by after the switch, with a grain in the pool
C11_Witness ==
    /\ gp.use_static_buffer
    /\ gp_h.since_start
         > GrainPlayer_ticks_before_switch_to_static_buffer(gp)
    /\ gp.fade_allowance = 1
    /\ \E i \in 1..MAX_GRAINS : ~Grain_is_finished(gp.grains[i])


-----------------------------------------------------------------------------
\* C12: after start_looping() issued when S samples had been input, and until
\* the next start_looping()/stop_looping(), every tick() that passes its
\* assertions reads, for each playing grain, the input sample of index S - p,
\* p being the delay position the grain reports on that tick: before the
\* switch to the static buffer, on the tick of the switch and after it.  The
\* k-th input sample is k and the buffers hold 0 before the first, so the
\* sample of index x is x, or 0 when x < 0.
C12_HandoffPhaseExact ==
    (gp_h.loop_armed /\ ~gp_h.panicked) =>
        LET input == R(gp_h.n_in + 1)
            q == GrainPlayer_tick_buffers(gp, input)
            S == gp_h.n_in - gp_h.since_start
        IN  GrainPlayer_tick_ok(gp, input) =>
                \A i \in 1..MAX_GRAINS :
                    Grain_is_playing(q.grains[i]) =>
                        LET x == RSub(R(S), Grain_tick_out(q.grains[i])[1])
                        IN  DelayLine_read_interpolated(
                                GrainPlayer_read_buffer(q),
                                GrainDelay(q.grains[i], GrainPlayer_read_offset(q)))
                              = IF RLess(x, ZeroR) THEN ZeroR ELSE x

\* the tick of the switch is next, for L = 2 and F = 1, with a playing grain
\* that reads a sample input before start_looping()
C12_Witness ==
    /\ gp_h.loop_armed
    /\ ~gp_h.panicked
    /\ gp.loopable_region_length = 2
    /\ gp.fade_allowance = 1
    /\ gp_h.since_start = 2
    /\ gp_h.n_in > gp_h.since_start
    /\ GrainPlayer_tick_ok(gp, R(gp_h.n_in + 1))
    /\ GrainPlayer_tick_buffers(gp, R(gp_h.n_in + 1)).use_static_buffer
    /\ \E i \in 1..MAX_GRAINS :
          /\ Grain_is_playing(gp.grains[i])
          /\ RLess(Grain_tick_out(gp.grains[i])[1],
                   R(gp_h.n_in - gp_h.since_start))


-----------------------------------------------------------------------------
\* the sum, over the slots in S, of the sample read in buf at the position
\* the grain reports plus off, times the gain the grain reports
RECURSIVE C13_ActiveSum(_, _, _, _)
C13_ActiveSum(grains, buf, off, S) ==
    IF S = {}
    THEN ZeroR
    ELSE LET i == CHOOSE j \in S : TRUE
             reported == Grain_tick_out(grains[i])
         IN  RAdd(RMul(DelayLine_read_interpolated(buf,
                           RAdd(reported[1], R(off))), reported[2]),
                  C13_ActiveSum(grains, buf, off, S \ {i}))

\* C13: every tick() that passes its assertions returns the sum, over the
\* grains that are neither finished nor waiting, of the sample read in the
\* buffer in use after the tick (at the grain's reported position plus the
\* fade allowance for the static buffer, plus rolling_offset for the rolling
\* one) times the grain's reported gain; a waiting grain only counts down, a
\* finished grain is left alone, and with no active grain the output is 0.
C13_OutputIsActiveSum ==
    ~gp_h.panicked =>
        LET input == R(gp_h.n_in + 1)
            out == GrainPlayer_tick_out(gp, input)
            after == GrainPlayer_tick(gp, input)
            active == {i \in 1..MAX_GRAINS :
                          /\ ~Grain_is_finished(gp.grains[i])
                          /\ ~Grain_is_waiting(gp.grains[i])}
            buf == IF after.use_static_buffer
                   THEN after.static_buffer ELSE after.rolling_buffer
            off == IF after.use_static_buffer
                   THEN after.fade_allowance ELSE after.rolling_offset
        IN  GrainPlayer_tick_ok(gp, input) =>
              /\ out = C13_ActiveSum(gp.grains, buf, off, active)
              /\ active = {} => out = ZeroR
              /\ \A i \in 1..MAX_GRAINS :
                    /\ Grain_is_finished(gp.grains[i]) =>
                          after.grains[i] = gp.grains[i]
                    /\ (~Grain_is_finished(gp.grains[i])
                            /\ Grain_is_waiting(gp.grains[i])) =>
                          after.grains[i] =
                              [gp.grains[i] EXCEPT
                                 !.scheduled_wait = gp.grains[i].scheduled_wait - 1]

\* a tick with one grain playing at a gain below 1 on a sample other than 0
\* and the other grain waiting
C13_Witness ==
    /\ ~gp_h.panicked
    /\ GrainPlayer_tick_ok(gp, R(gp_h.n_in + 1))
    /\ GrainPlayer_tick_out(gp, R(gp_h.n_in + 1)) # ZeroR
    /\ \E i, j \in 1..MAX_GRAINS :
          /\ Grain_is_playing(gp.grains[i])
          /\ Grain_tick_out(gp.grains[i])[2] \notin {ZeroR, OneR}
          /\ ~Grain_is_finished(gp.grains[j])
          /\ Grain_is_waiting(gp.grains[j])


-----------------------------------------------------------------------------
\* C14: stop_looping() only ends the filling of the static buffer: it keeps
\* use_static_buffer and rolling_offset as they were, so that the tick() that
\* follows returns what it would have returned without the call.
C14_StopLoopingFrame ==
    ~gp_h.panicked =>
        LET q == GrainPlayer_stop_looping(gp)
            input == R(gp_h.n_in + 1)
        IN  /\ ~q.is_filling_static_buffer
            /\ q.use_static_buffer = gp.use_static_buffer
            /\ q.rolling_offset = gp.rolling_offset
            /\ (GrainPlayer_tick_ok(gp, input) /\ GrainPlayer_tick_ok(q, input)) =>
                  GrainPlayer_tick_out(q, input) = GrainPlayer_tick_out(gp, input)


-----------------------------------------------------------------------------
\* C15: tick(now) returns exactly the events that were pending with a time
\* <= now, in the order of their insertion, and leaves pending exactly the
\* others, in order; no event is returned by two ticks.
C15_TickReturnsDue ==
    /\ ~sch_h.twice
    /\ sch_h.op = "tick" =>
          LET Due(e) == RLeq(e[1], sch_h.time)
              Later(e) == ~RLeq(e[1], sch_h.time)
              due == SelectSeq(sch_h.before, Due)
          IN  /\ sch_h.out = [i \in 1..Len(due) |-> due[i][2]]
              /\ sch = SelectSeq(sch_h.before, Later)

\* a tick that returned two events scheduled for different times and left a
\* later one pending
C15_Witness ==
    /\ sch_h.op = "tick"
    /\ Len(sch_h.out) = 2
    /\ sch_h.before[1][1] # sch_h.before[2][1]
    /\ Len(sch) = 1
    /\ RLess(sch_h.time, sch[1][1])

\* C16: schedule_event(time, e) fails its assertion whenever time is before
\* the time of the last pending event, so the pending list is always in
\* non-decreasing order of time; after clear() the list is empty and
\* tick(now) returns nothing whatever now is.
C16_InsertionOrdered ==
    /\ \A i \in 1..(Len(sch) - 1) : RLeq(sch[i][1], sch[i + 1][1])
    /\ (/\ sch_h.op = "schedule_event"
        /\ Len(sch_h.before) > 0
        /\ RLess(sch_h.time, sch_h.before[Len(sch_h.before)][1])) =>
            (sch_h.panicked /\ sch = sch_h.before)
    /\ sch_h.op = "clear" =>
          /\ sch = <<>>
          /\ \A now \in SchedTimes :
                /\ Scheduler_tick_out(sch, now) = <<>>
                /\ Scheduler_tick(sch, now) = <<>>

\* a schedule_event refused for a time before that of the last pending event
C16_Witness ==
    /\ sch_h.op = "schedule_event"
    /\ sch_h.panicked
    /\ Len(sch_h.before) = 2
    /\ RLess(sch_h.time, sch_h.before[2][1])
    /\ RLeq(ZeroR, sch_h.time)


-----------------------------------------------------------------------------
\* C17, as claimed: after start_looping() with grid g, and no
\* set_grid_interval(), stop_looping() or reset() since, a tick before the
\* boundary B computed by start_looping() returns no event and the first
\* tick at or after B returns exactly [StartGrain{g}, FadeOutDry].
C17_StartThenBoundary ==
    (ls_h.op = "tick" /\ ~ls_h.panicked /\ ls_h.pre_start = "armed") =>
        IF RLess(ls_h.arg, ls_h.start_B)
        THEN ls_h.out = <<>>
        ELSE ls_h.out = <<StartGrain(ls_h.start_g), FadeOutDry>>

\* C17, amended: the events a stop_looping() left pending before the
\* start_looping() are still returned when due.  A tick before B returns
\* those of them that are due and nothing else; the first tick at or after B
\* returns the rest of them followed by StartGrain{g}, FadeOutDry, which is
\* exactly [StartGrain{g}, FadeOutDry] when nothing was pending at the
\* start_looping().
C17_StartThenBoundaryAfterPending ==
    (ls_h.op = "tick" /\ ~ls_h.panicked /\ ls_h.pre_start = "armed") =>
        IF RLess(ls_h.arg, ls_h.start_B)
        THEN ls_h.out = ls_h.left_due
        ELSE /\ ls_h.out = ls_h.left_due \o <<StartGrain(ls_h.start_g), FadeOutDry>>
             /\ ls_h.start_left = <<>>

\* start_looping() with a fade lead-in of half a beat, a tick before the
\* boundary and the tick that reaches it
C17_Witness ==
    /\ ls_h.op = "tick"
    /\ ~ls_h.panicked
    /\ ls_h.pre_start = "armed"
    /\ ls_h.start = "fired"
    /\ ls.fade_in_time = RNorm(1, 2)
    /\ ls_h.start_g = R(2)
    /\ ls_h.start_B = RNorm(3, 2)
    /\ ls_h.pre.current_song_time = OneR
    /\ ls_h.pre.time_looping_initiated = RNorm(1, 2)
    /\ ls_h.out = <<StartGrain(R(2)), FadeOutDry>>


-----------------------------------------------------------------------------
\* C18: stop_looping() while looping leaves pending only StopGrain and
\* FadeInDry, at the next grid boundary B; until the next start_looping() or
\* reset(), a tick before B returns no event, the first tick at or after B
\* returns exactly [StopGrain, FadeInDry] and every later tick returns none.
C18_StopThenBoundary ==
    /\ (ls_h.op = "stop_looping" /\ ~ls_h.panicked) =>
          ls.scheduler = <<<<ls_h.stop_B, StopGrain>>, <<ls_h.stop_B, FadeInDry>>>>
    /\ (ls_h.op = "tick" /\ ~ls_h.panicked /\ ls_h.pre_stop = "armed") =>
          IF RLess(ls_h.arg, ls_h.stop_B)
          THEN ls_h.out = <<>>
          ELSE ls_h.out = <<StopGrain, FadeInDry>>
    /\ (ls_h.op = "tick" /\ ~ls_h.panicked /\ ls_h.pre_stop = "fired") =>
          ls_h.out = <<>>

\* stop_looping() on a grid of 2 beats, a tick before the boundary and the
\* tick that reaches it
C18_Witness ==
    /\ ls_h.op = "tick"
    /\ ~ls_h.panicked
    /\ ls_h.pre_stop = "armed"
    /\ ls_h.stop = "fired"
    /\ ls_h.stop_B = R(2)
    /\ ls_h.pre.current_song_time = OneR
    /\ ls_h.out = <<StopGrain, FadeInDry>>


-----------------------------------------------------------------------------
\* C19: while looping goes on, a tick that takes the NextLoop pending at X
\* (every tick at or after X does, also one that lands after X) leaves the
\* following NextLoop pending exactly one grid interval after X, at a grid
\* boundary: a time B with B + fade_in_time a whole multiple of the interval.
C19_RestartsGridAligned ==
    (ls_h.op = "tick" /\ ~ls_h.panicked) =>
        \A i \in 1..Len(ls_h.pre.scheduler) :
            (/\ ls_h.pre.scheduler[i][2] = NextLoop
             /\ RLeq(ls_h.pre.scheduler[i][1], ls_h.arg)) =>
                LET B == RAdd(ls_h.pre.scheduler[i][1], ls.grid_interval)
                IN  /\ \E j \in 1..Len(ls.scheduler) :
                          ls.scheduler[j] = <<B, NextLoop>>
                    /\ RDiv(RAdd(B, ls.fade_in_time), ls.grid_interval)[2] = 1


-----------------------------------------------------------------------------
\* C20: set_grid_interval(new) with new below the grid, while looping, leaves
\* pending exactly StopGrain then NextLoop, both at the next boundary B of
\* the new grid; the first tick at or after B returns exactly
\* [StopGrain, StartGrain{new}] and leaves the following restart pending at
\* B + new, so that the restarts follow every new beats.
C20_ShortenGrid ==
    /\ (/\ ls_h.op = "set_grid_interval"
        /\ ~ls_h.panicked
        /\ ls_h.pre.is_looping
        /\ RLess(ls_h.arg, ls_h.pre.grid_interval)) =>
          LET B == next_grid_in_beats(ls_h.pre.current_song_time, ls_h.arg,
                                      ls_h.pre.fade_in_time)
          IN  ls.scheduler = <<<<B, StopGrain>>, <<B, NextLoop>>>>
    /\ (/\ ls_h.op = "tick"
        /\ ~ls_h.panicked
        /\ Len(ls_h.pre.scheduler) = 2
        /\ ls_h.pre.scheduler[1][2] = StopGrain
        /\ ls_h.pre.scheduler[2][2] = NextLoop
        /\ RLeq(ls_h.pre.scheduler[2][1], ls_h.arg)) =>
          /\ ls_h.out = <<StopGrain, StartGrain(ls.grid_interval)>>
          /\ ls.scheduler =
                <<<<RAdd(ls_h.pre.scheduler[2][1], ls.grid_interval), NextLoop>>>>


-----------------------------------------------------------------------------
\* C21: set_grid_interval(new) with new above the grid, while looping,
\* schedules a StartLegatoGrain exactly when the history since looping began,
\* current_song_time - time_looping_initiated, is shorter than new.
C21_LegatoIffShortHistory ==
    (/\ ls_h.op = "set_grid_interval"
     /\ ~ls_h.panicked
     /\ ls_h.pre.is_looping
     /\ RLess(ls_h.pre.grid_interval, ls_h.arg)) =>
        ((\E i \in 1..Len(ls.scheduler) :
              ls.scheduler[i][2].kind = "StartLegatoGrain")
         <=> RLess(RSub(ls_h.pre.current_song_time,
                        ls_h.pre.time_looping_initiated),
                   ls_h.arg))


\* C21, amended: the StartLegatoGrain is scheduled exactly when the next
\* boundary of the new grid lies after the next boundary of the old grid,
\* whatever the history since looping began.
C21_LegatoIffLaterBoundary ==
    (/\ ls_h.op = "set_grid_interval"
     /\ ~ls_h.panicked
     /\ ls_h.pre.is_looping
     /\ RLess(ls_h.pre.grid_interval, ls_h.arg)) =>
        ((\E i \in 1..Len(ls.scheduler) :
              ls.scheduler[i][2].kind = "StartLegatoGrain")
         <=> RLess(next_grid_in_beats(ls_h.pre.current_song_time,
                                      ls_h.pre.grid_interval,
                                      ls_h.pre.fade_in_time),
                   next_grid_in_beats(ls_h.pre.current_song_time, ls_h.arg,
                                      ls_h.pre.fade_in_time)))

\* a lengthening from 1 to 2 beats that schedules a StartLegatoGrain although
\* looping began at least 2 beats before
C21_Witness ==
    /\ ls_h.op = "set_grid_interval"
    /\ ~ls_h.panicked
    /\ ls_h.pre.is_looping
    /\ ls_h.pre.grid_interval = OneR
    /\ ls_h.arg = R(2)
    /\ RLeq(R(2), RSub(ls_h.pre.current_song_time,
                        ls_h.pre.time_looping_initiated))
    /\ \E i \in 1..Len(ls.scheduler) :
          ls.scheduler[i][2].kind = "StartLegatoGrain"


\* C22: while only ticks and grid lengthenings follow the first StartGrain of
\* a looping run, and every tick returns its events at their scheduled times,
\* the started grains cover song time without gap or overlap: a tick that
\* reaches the end of the grain started last returns exactly one StartGrain
\* or StartLegatoGrain, and a tick returns one only at that end.
C22_GrainsContiguous ==
    (/\ ls_h.op = "tick"
     /\ ~ls_h.panicked
     /\ ls_h.hit
     /\ ls_h.pre.is_looping
     /\ ls_h.pre_end # NoTime) =>
        LET starts == SelectSeq(ls_h.out, IsGrainStart)
        IN  /\ Len(starts) > 0 => ls_h.arg = ls_h.pre_end /\ Len(starts) = 1
            /\ RLeq(ls_h.pre_end, ls_h.arg) => Len(starts) > 0


\* C24: a tick(t) with t at or before the time of the previous tick that
\* passed fails its assertion, a tick that passes records t, and no other
\* call changes the recorded time: current_song_time is always the time of
\* the last tick that passed.
C24_TimeStrictlyIncreasing ==
    /\ ls_h.last_tick # NoTime => ls.current_song_time = ls_h.last_tick
    /\ (ls_h.op = "tick" /\ ls_h.pre_tick # NoTime) =>
           /\ ~RLess(ls_h.pre_tick, ls_h.arg) => ls_h.panicked
           /\ ~ls_h.panicked => /\ RLess(ls_h.pre_tick, ls_h.arg)
                                /\ ls_h.last_tick = ls_h.arg

\* a tick(1.0) right after the tick(1.0) that passed, with calls other than
\* tick before them and nothing pending, has failed
C24_Witness ==
    /\ ls_h.op = "tick"
    /\ ls_h.panicked
    /\ ls_h.arg = ls_h.pre_tick
    /\ ls_h.pre.scheduler = <<>>
    /\ ls_h.n_calls > 0
    /\ ls_h.arg = OneR


\* C23: stop_looping() on a LoopScheduler that is not looping (stopped
\* already, or never started) fails no assertion and leaves the pending
\* events and the flags as they were.
C23_StopLoopingIdempotent ==
    (ls_h.op = "stop_looping" /\ ~ls_h.pre.is_looping) =>
        ~ls_h.panicked /\ ls = ls_h.pre


C29_FadeFitsDuration == 2 * grain.fade_duration <= grain.duration


\* C30: in every state of the GrainPlayer, whatever the order of
\* start_looping, stop_looping, tick, schedule_grain and stop_all_grains,
\* is_filling_static_buffer and use_static_buffer are not both set.
C30_OnePhase == ~(gp.is_filling_static_buffer /\ gp.use_static_buffer)

\* the tick that completes the copy after a start_looping() has switched the
\* reads to the static buffer and ended the filling
C30_Witness ==
    /\ gp.use_static_buffer
    /\ ~gp.is_filling_static_buffer
    /\ gp_h.since_start = GrainPlayer_ticks_before_switch_to_static_buffer(gp)
    /\ gp_h.copied = gp_h.since_start


\* C25: on a GrainLooper on which start_looping() was never called, every
\* tick(input) returns exactly input.
C25_NeverStartedPassthrough ==
    (gl_h.op = "tick" /\ ~gl_h.started) =>
        ~gl_h.panicked /\ gl_h.out = gl_h.input

\* C26: with fade 0 and loop offset = loop duration = D, 1 <= D <= loopable
\* region, and at least D ticks before start_looping(0), the k-th tick after
\* it returns the ((k-1) mod D)-th of the last D samples fed before it,
\* before, across and after the switch to the static buffer; and the ticks
\* after the stop_looping() that follows return their input.
C26_LoopReplaysHistory ==
    gl_h.op = "tick" =>
        /\ gl_h.loop = "on" =>
              /\ ~gl_h.panicked
              /\ gl_h.out =
                    IF gl_h.constant THEN OneR
                    ELSE R(gl_h.loop_s - gl_h.loop_D + 1
                             + ((gl_h.n_in - gl_h.loop_s - 1) % gl_h.loop_D))
        /\ gl_h.loop = "off" =>
              ~gl_h.panicked /\ gl_h.out = gl_h.input

\* a loop of 2 ramp samples has just been read from the static buffer
C26_Witness ==
    /\ gl_h.op = "tick"
    /\ gl_h.loop = "on"
    /\ ~gl_h.constant
    /\ gl_h.loop_D = 2
    /\ gl.use_static_buffer
    /\ gl_h.n_in - gl_h.loop_s
         > GrainLooper_ticks_before_switch_to_static_buffer(gl)

\* C27: with the constant input 1 and a fade of at least one sample, every
\* tick returns 1, wherever start_looping() and stop_looping() are placed.
C27_FlatStaysFlat ==
    (/\ gl_h.op = "tick"
     /\ ~gl_h.panicked
     /\ gl_h.constant
     /\ gl_h.started
     /\ gl_h.flat) => gl_h.out = OneR

-----------------------------------------------------------------------------
(* Grain pool properties (SpecPool) *)

\* C31: in every reachable GrainPlayer state the waiting, the playing and the
\* finished grains partition the pool: num_scheduled_grains +
\* num_playing_grains + num_finished_grains = MAX_GRAINS.
C31_PoolPartition ==
    GrainPlayer_num_scheduled_grains(gp) + GrainPlayer_num_playing_grains(gp)
        + GrainPlayer_num_finished_grains(gp) = MAX_GRAINS

\* C32: once stop_all_grains() was called and no grain was scheduled since,
\* no grain that was waiting at the call is played by a later tick, and after
\* F ticks, F being the largest fade_duration among the grains, every grain
\* of the pool is finished.
C32_StopAllFinishesWithinFade ==
    (gp_h.stop_all /\ ~gp_h.panicked) =>
        /\ ~gp_h.stop_sounded
        /\ gp_h.stop_ticks >= gp_h.stop_F => UnfinishedSlots(gp) = {}

-----------------------------------------------------------------------------
(* LoopScheduler properties, continued (SpecLoopScheduler) *)

\* C33: set_grid_interval(new) called while not looping, or with new equal
\* to the current grid, only stores the value: the pending events with their
\* times, is_looping, current_song_time, time_looping_initiated and the fade
\* lead-in are as before the call, and no assertion fails.
C33_SetGridStoresOnly ==
    (/\ ls_h.op = "set_grid_interval"
     /\ ~ls_h.pre.is_looping \/ ls_h.arg = ls_h.pre.grid_interval) =>
        /\ ~ls_h.panicked
        /\ ls = [ls_h.pre EXCEPT !.grid_interval = ls_h.arg]

\* set_grid_interval to another grid after a stop_looping() whose StopGrain
\* and FadeInDry are still pending
C33_Witness ==
    /\ ls_h.op = "set_grid_interval"
    /\ ~ls_h.panicked
    /\ ~ls_h.pre.is_looping
    /\ ls_h.arg # ls_h.pre.grid_interval
    /\ ls_h.stop = "armed"
    /\ ls.scheduler = <<<<ls_h.stop_B, StopGrain>>, <<ls_h.stop_B, FadeInDry>>>>
    /\ ls.grid_interval = ls_h.arg

\* C34: set_grid_interval(new) with new above the grid, while looping, leaves
\* a NextLoop pending at the next boundary of the new grid, whether or not it
\* scheduled a StartLegatoGrain; a StartLegatoGrain it scheduled is pending at
\* the next boundary of the old grid, with duration = new boundary - old
\* boundary and offset_reduction = new - duration, so that it ends at the new
\* boundary; and from then on StartGrain{new} recurs every new beats: the tick
\* that takes the NextLoop pending at X returns StartGrain{grid} and leaves
\* the following NextLoop pending at X + grid.
C34_LengthenGrid ==
    /\ (/\ ls_h.op = "set_grid_interval"
        /\ ~ls_h.panicked
        /\ ls_h.pre.is_looping
        /\ RLess(ls_h.pre.grid_interval, ls_h.arg)) =>
          LET old_B == next_grid_in_beats(ls_h.pre.current_song_time,
                           ls_h.pre.grid_interval, ls_h.pre.fade_in_time)
              new_B == next_grid_in_beats(ls_h.pre.current_song_time, ls_h.arg,
                                          ls_h.pre.fade_in_time)
              n == Len(ls.scheduler)
          IN  /\ n \in {1, 2}
              /\ ls.scheduler[n] = <<new_B, NextLoop>>
              /\ n = 2 =>
                    LET e == ls.scheduler[1][2]
                    IN  /\ ls.scheduler[1][1] = old_B
                        /\ e.kind = "StartLegatoGrain"
                        /\ e.duration = RSub(new_B, old_B)
                        /\ e.offset_reduction = RSub(ls_h.arg, e.duration)
                        /\ RAdd(e.duration, e.offset_reduction) = ls_h.arg
                        /\ RAdd(old_B, e.duration) = new_B
    /\ (ls_h.op = "tick" /\ ~ls_h.panicked /\ ls_h.lengthened) =>
          \A i \in 1..Len(ls_h.pre.scheduler) :
              (/\ ls_h.pre.scheduler[i][2] = NextLoop
               /\ RLeq(ls_h.pre.scheduler[i][1], ls_h.arg)) =>
                  /\ ls_h.out[i] = StartGrain(ls.grid_interval)
                  /\ \E j \in 1..Len(ls.scheduler) :
                        ls.scheduler[j] = <<RAdd(ls_h.pre.scheduler[i][1],
                                                 ls.grid_interval), NextLoop>>

-----------------------------------------------------------------------------
(* next_grid_in_beats (SpecGrid) *)

\* C35: for interval > 0 and lead-in >= 0, next_grid_in_beats(t, interval,
\* lead_in) returns a boundary B with t <= B < t + interval and B + lead_in a
\* whole multiple of interval; when t + lead_in is itself a multiple of
\* interval it returns t.
C35_NextGridIsNextBoundary ==
    ng.called =>
        LET t == ng.song_time
            B == ng.out
        IN  /\ RLeq(t, B)
            /\ RLess(B, RAdd(t, ng.grid_interval))
            /\ RDiv(RAdd(B, ng.grid_offset), ng.grid_interval)[2] = 1
            /\ RDiv(RAdd(t, ng.grid_offset), ng.grid_interval)[2] = 1 => B = t

\* the song time 3/2 with a lead-in of 1/2 on a grid of 2 is a boundary, and
\* is returned
C35_Witness ==
    /\ ng.called
    /\ ng.song_time = RNorm(3, 2)
    /\ ng.grid_interval = R(2)
    /\ ng.grid_offset = RNorm(1, 2)
    /\ ng.out = RNorm(3, 2)

-----------------------------------------------------------------------------
(* LoopScheduler properties, continued (SpecLoopScheduler) *)

\* C36: no legal call trips an assertion: a call aborts only when it is a
\* start_looping() while looping, a stop_looping() while not looping, or a
\* tick whose time is not after the time of the previous tick.
C36_LegalCallsNeverAbort ==
    ls_h.panicked =>
        \/ ls_h.op = "start_looping" /\ ls_h.pre.is_looping
        \/ ls_h.op = "stop_looping" /\ ~ls_h.pre.is_looping
        \/ ls_h.op = "tick" /\ RLeq(ls_h.arg, ls_h.pre.current_song_time)

\* C37: in every reachable LoopScheduler state the pending events hold
\* exactly one NextLoop when is_looping is true and none when it is false.
C37_OneRestartChain ==
    LET IsNextLoop(e) == e[2] = NextLoop
    IN  Len(SelectSeq(ls.scheduler, IsNextLoop)) = IF ls.is_looping THEN 1 ELSE 0

\* a second looping session: the tick that takes the NextLoop of a
\* start_looping() that followed a stop_looping() and found its events
\* pending, with the following NextLoop pending after it
C37_Witness ==
    /\ ls_h.op = "tick"
    /\ ~ls_h.panicked
    /\ ls.is_looping
    /\ Len(ls_h.pre.scheduler) = 4
    /\ ls_h.pre.scheduler[1][2] = StopGrain
    /\ ls_h.pre.scheduler[3][2] = NextLoop
    /\ Len(ls_h.out) = 4
    /\ Len(ls.scheduler) = 1
    /\ ls.scheduler[1][2] = NextLoop

\* C38: in every looping session a FadeOutDry is returned by the tick that
\* returns the session's first StartGrain or StartLegatoGrain, or by an
\* earlier tick of the session, also when set_grid_interval() is called
\* between start_looping() and the first boundary.
C38_DryFadesBeforeWet ==
    ls_h.dry # "wet"

\* C39: finished is absorbing for a Grain.  In every reachable state
\* elapsed_sample_count <= duration and fade_duration <= duration, and once
\* is_finished() has held before a call, it holds after every later tick()
\* and stop(), and every later tick() returns (0, 0).
C39_FinishedIsAbsorbing ==
    /\ grain.elapsed_sample_count <= grain.duration
    /\ grain.fade_duration <= grain.duration
    /\ gr_h.was_finished =>
           /\ Grain_is_finished(grain)
           /\ gr_h.op = "tick" => gr_h.last_out = <<ZeroR, ZeroR>>

\* a grain with a fade that played to its end and was then stopped
C39_Witness ==
    /\ gr_h.was_finished
    /\ gr_h.op = "stop"
    /\ grain.fade_duration >= 1
    /\ grain.elapsed_sample_count = grain.duration

\* C40: once L+F ticks have gone by since the most recent start_looping(),
\* with no stop_looping() since, static_buffer.read(d) is the input sample of
\* stream index S + F - d for every 0 <= d < L+F, S being the number of
\* samples input before that start_looping(), whatever fills were aborted
\* or restarted before.  The k-th input sample is k and the buffers hold 0
\* before the first, so the sample of index x is x, or 0 when x <= 0.
C40_CompletedFillHoldsLoop ==
    LET T == GrainPlayer_ticks_before_switch_to_static_buffer(gp)
        S == gp_h.n_in - gp_h.since_start
    IN  (gp_h.loop_armed /\ gp_h.since_start >= T) =>
            \A d \in 0..(T - 1) :
                LET x == S + gp.fade_allowance - d
                IN  DelayLine_read(gp.static_buffer, d)
                      = IF x <= 0 THEN ZeroR ELSE R(x)

\* a fill completed after an earlier fill was cut short: the write index of
\* the static buffer is not back at 0
C40_Witness ==
    /\ gp_h.loop_armed
    /\ ~gp_h.panicked
    /\ gp.loopable_region_length = 2
    /\ gp.fade_allowance = 1
    /\ gp_h.since_start = GrainPlayer_ticks_before_switch_to_static_buffer(gp)
    /\ gp_h.n_in > gp_h.since_start
    /\ gp.use_static_buffer
    /\ gp.static_buffer.write_index # 0

=============================================================================
